---- MODULE Spec2Model ----
(***************************************************************************)
(* Dynamic Content Loader: RequestPool (the orchestrator) and Request (the *)
(* transport) of packages/DynamicContentLoader.                            *)
(*                                                                         *)
(* JavaScript runs to completion: every action below is one synchronous    *)
(* run of code (a public method call, or the continuation of an await).    *)
(* The network (the global fetch and Response.text) is the environment.    *)
(***************************************************************************)
EXTENDS Integers, Sequences, FiniteSets, TLC

\* ------------------------------------------------------------------ bounds
MaxCycles == 2         \* loadContent calls in one behaviour
MaxUpdaters == 2       \* length of the registry RequestPool.#updaters
MaxRequests == 2       \* Request objects constructed in one behaviour

\* ------------------------------------------------- JavaScript values used
\* A value is [type, val]; typeof and truthiness are read from it.
JSNull == [type |-> "null", val |-> "null"]
JSNumber5 == [type |-> "number", val |-> "5"]
JSString(s) == [type |-> "string", val |-> s]
Undefined == "undefined"

\* The url that a getRequestConfig call may return in { url, data }.
URLValues == {JSNull, JSNumber5, JSString(""), JSString("/a"), JSString("/b")}

\* The data an updater returns next to the url: none or a tag.  It differs
\* between neighbouring updaters of a cycle and between consecutive cycles
\* of an updater.
DataOf(slot, cycle) == IF (slot + cycle) % 2 = 0 THEN "append" ELSE Undefined

\* What the server answers when it answers: a Response and its body text.
ServerResponse(url) ==
    IF url = "/a" THEN [ok |-> TRUE, status |-> 200, body |-> "X"]
    ELSE [ok |-> FALSE, status |-> 404, body |-> "Y"]

\* The requestConfiguration values that loadContent is called with.  One that
\* is not an object is undefined, null or a string; an object is
\* told by its properties: what searchParams and reset hold ("absent" when
\* the object has no such property of its own) and whether it has a property
\* that loadContent does not know.
NonObjects ==
    { [type |-> "undefined"], [type |-> "null"], [type |-> "string"] }

SearchParamsKinds == {"absent", "URLSearchParams", "string"}
ResetKinds == {"absent", "boolean", "string"}

Objects ==
    [ type : {"object"}, searchParams : SearchParamsKinds,
      reset : ResetKinds, unknownKey : BOOLEAN ]

RequestConfigurations == NonObjects \cup Objects

\* { searchParams: new URLSearchParams(...) }
PlainConfiguration ==
    [ type |-> "object", searchParams |-> "URLSearchParams",
      reset |-> "absent", unknownKey |-> FALSE ]

\* What the properties of an updater object may hold.
PropertyKinds == {"function", "undefined"}

VARIABLES
    updaters,               \* RequestPool.#updaters: registered updater objects
    latestAbortController,  \* RequestPool.#latestAbortController, 0 is null
    controllers,            \* number of AbortControllers allocated so far
    aborted,                \* the controllers whose signal is aborted
    requests,               \* every Request constructed, in construction order
    calls,                  \* every updateResponseStatus call made, in order
    returned,               \* per cycle: what each queried getRequestConfig returned
    thrown,                 \* per cycle: did loadContent throw to its caller
    events,                 \* the steps of the latest loadContent call, in order
    unhandledRejections,    \* rejected promises that nobody handles
    constructed,            \* number of Request objects constructed so far
    lastCall,               \* the latest call of a public method and its outcome
    listeners,              \* dynamic-content-orchestrator: listeners added per event type
    dispatched,             \* the event being dispatched and the listeners left to run
    contentUpdater,         \* a content-updater element: attributes, children, history
    asyncLoader             \* an async-loader element: attributes, status, fetches

vars == <<updaters, latestAbortController, controllers, aborted, requests,
          calls, returned, thrown, events, unhandledRejections, constructed,
          lastCall, listeners, dispatched, contentUpdater, asyncLoader>>

\* What the elements around the pool hold; no method of RequestPool or Request
\* touches it.
elementVars == <<listeners, dispatched, contentUpdater, asyncLoader>>

\* What RequestPool and Request hold, and what is recorded about them.
poolVars == <<updaters, latestAbortController, controllers, aborted, requests,
              calls, returned, thrown, events, unhandledRejections,
              constructed, lastCall>>

\* ------------------------------------------------------------ Request
\* A constructor that only checks the type of url.
RequestConstructorThrows_TypeOnly(url, signal) ==
    \/ url.type # "string"
    \/ signal = 0

\* A constructor that takes any object for a signal.
RequestConstructorThrows_AnyObject(url, signal) ==
    \/ url.type # "string"
    \/ url.val = ""
    \/ signal = 0

\* new Request({ url, signal }): the guard of the constructor.  A signal is
\* the number of its AbortController; 0 stands for undefined and -1 for an
\* object that is not an AbortSignal.
RequestConstructorThrows(url, signal) ==
    \/ url.type # "string"
    \/ url.val = ""
    \/ signal <= 0

\* The fields of a fresh Request; pc is the position of its fetch() call.
NewRequest(url, signal) ==
    [ url |-> url.val,
      signal |-> signal,
      updaters |-> <<>>,
      data |-> <<>>,
      pc |-> "constructed",
      response |-> Undefined,
      content |-> Undefined,
      error |-> Undefined ]

\* A store with one cell for all keys: the last value set is everyone's.
MapSet_OneCell(map, key, value) ==
    [k \in DOMAIN map \cup {key} |-> value]

\* Map.set(key, value) on a Map held as a function.
MapSet(map, key, value) ==
    [k \in DOMAIN map \cup {key} |-> IF k = key THEN value ELSE map[k]]

\* A guard that lets everything pass.
AddUpdaterThrows_Never(updater) == FALSE

\* Request.addUpdater(updater, data): the guard; updater is a value with a
\* type, as typeof reports it.
AddUpdaterThrows(updater) == updater.type # "function"

\* An addUpdater that detects duplicates: a function already in the list is
\* not pushed again.
RequestAddUpdater_Once(request, updater, data) ==
    IF \E i \in DOMAIN request.updaters : request.updaters[i] = updater
    THEN [request EXCEPT !.data = MapSet(@, updater, data)]
    ELSE [request EXCEPT !.updaters = Append(@, updater),
                         !.data = MapSet(@, updater, data)]

\* Request.addUpdater(updater, data) past its guard; updater is a function
\* object.
RequestAddUpdater(request, updater, data) ==
    [request EXCEPT !.updaters = Append(@, updater),
                    !.data = MapSet(@, updater, data)]

\* A loop that starts at the second updater.
CallAllUpdaters_SkipFirst(request, update, latest) ==
    [i \in 1..(Len(request.updaters) - 1) |->
        [ updater |-> request.updaters[i + 1],
          cycle |-> request.signal,
          from |-> request.url,
          latest |-> latest,
          arg |-> [data |-> request.data[request.updaters[i + 1]]] @@ update ]]

\* A loop that runs from the last updater to the first.
CallAllUpdaters_Reversed(request, update, latest) ==
    [i \in 1..Len(request.updaters) |->
        [ updater |-> request.updaters[Len(request.updaters) + 1 - i],
          cycle |-> request.signal,
          from |-> request.url,
          latest |-> latest,
          arg |-> [data |->
                    request.data[request.updaters[Len(request.updaters) + 1 - i]]]
                  @@ update ]]

\* Request.#callAllUpdaters(data): the calls it makes, in order.
\* { ...data, data: this.#data.get(updater) }
CallAllUpdaters(request, update, latest) ==
    [i \in 1..Len(request.updaters) |->
        [ updater |-> request.updaters[i],
          cycle |-> request.signal,
          from |-> request.url,
          latest |-> latest,
          arg |-> [data |-> request.data[request.updaters[i]]] @@ update ]]

\* A 'loading' update without the url.
LoadingUpdate_NoURL(request) == [status |-> "loading"]

\* The synchronous part of Request.fetch(): all updaters get 'loading',
\* then the global fetch is started and the function suspends.
LoadingUpdate(request) == [status |-> "loading", url |-> request.url]

\* An update that says 'loaded' whatever the response.
TerminalUpdate_AlwaysLoaded(request) ==
    [ response |-> request.response,
      content |-> request.content,
      status |-> "loaded" ]

\* The update built after the body was read.
TerminalUpdate(request) ==
    [ response |-> request.response,
      content |-> request.content,
      status |-> IF request.response.ok THEN "loaded" ELSE "failed" ]

\* ------------------------------------------------------------ RequestPool
\* A validation that does not look at reset.
ValidateRequestConfiguration_NoReset(config) ==
    IF config.type # "object" THEN "requestConfiguration"
    ELSE IF config.searchParams \notin {"absent", "URLSearchParams"}
         THEN "searchParams"
    ELSE Undefined

\* A validation that throws for a property it does not know.
ValidateRequestConfiguration_Strict(config) ==
    IF config.type # "object" THEN "requestConfiguration"
    ELSE IF config.unknownKey THEN "requestConfiguration"
    ELSE IF config.searchParams \notin {"absent", "URLSearchParams"}
         THEN "searchParams"
    ELSE IF config.reset \notin {"absent", "boolean"} THEN "reset"
    ELSE Undefined

\* RequestPool.#validateRequestConfiguration: the parameter or property that
\* the Error thrown names, Undefined when nothing is thrown.
ValidateRequestConfiguration(config) ==
    IF config.type # "object" THEN "requestConfiguration"
    ELSE IF config.searchParams \notin {"absent", "URLSearchParams"}
         THEN "searchParams"
    ELSE IF config.reset \notin {"absent", "boolean"} THEN "reset"
    ELSE Undefined

\* ... and whether it calls console.warn on its way.
WarnsOfInvalidKeys(config) == config.type = "object" /\ config.unknownKey

\* A validation that looks at updateResponseStatus only.
ValidateUpdater_StatusOnly(updater) ==
    IF updater.updateResponseStatus # "function" THEN "updateResponseStatus"
    ELSE Undefined

\* RequestPool.#validateupdater: the property that the Error thrown names,
\* Undefined when nothing is thrown.
ValidateUpdater(updater) ==
    IF updater.updateResponseStatus # "function" THEN "updateResponseStatus"
    ELSE IF updater.getRequestConfig # "function" THEN "getRequestConfig"
    ELSE Undefined

\* A find that never matches: every updater gets a Request of its own.
FindMatchingRequest_None(previous, url) == 0

\* A find that takes the first Request whatever its url.
FindMatchingRequest_First(previous, url) == IF previous = <<>> THEN 0 ELSE 1

\* previous.find((request) => request.url === url): the first match, 0 if none.
FindMatchingRequest(previous, url) ==
    LET matching == {k \in 1..Len(previous) : previous[k].url = url}
    IN IF matching = {} THEN 0
       ELSE CHOOSE k \in matching : \A j \in matching : k <= j

\* No early return for null.
IsNullURL_Never(url) == FALSE

\* if (url === null) return previous;
IsNullURL(url) == url.type = "null"

\* if (typeof url !== 'string') throw new Error(...)
IsNotAString(url) == url.type # "string"

\* A controller that is allocated once and used again in every call.
NewAbortController_Reused(allocated) == IF allocated = 0 THEN 1 ELSE allocated

\* this.#latestAbortController = new AbortController(): a controller that did
\* not exist before; controllers are numbered as they are allocated.
NewAbortController(allocated) == allocated + 1

\* A loadContent that does not abort.
AbortExisting_Not(latest, abortedBefore) == abortedBefore

\* The abort at the head of loadContent: the signals aborted afterwards.
AbortExisting(latest, abortedBefore) ==
    IF latest # 0 THEN abortedBefore \cup {latest} ELSE abortedBefore

\* AbortController.abort(reason) rejects, with the reason, the promise of
\* every fetch(url, { signal }) still in flight and of every text() still
\* reading a body of such a fetch; a promise already settled is not touched.
\* The await that waits for it throws, which rejects the promise of fetch().
AbortsFetch(request, abortedNow) ==
    request.signal \in abortedNow /\ request.pc \in {"fetching", "reading"}

AbortInFlight(request, abortedNow) ==
    IF AbortsFetch(request, abortedNow)
    THEN [request EXCEPT !.pc = "rejected", !.response = Undefined,
                         !.error = "abort"]
    ELSE request

\* One round of the reduce callback over #updaters.  acc holds the array
\* built so far (requests), whether an exception left the reduce (threw) and
\* the history of the call (events, returned).
ReduceStep(acc, asked, signal) ==
    LET slot == asked.slot
        url == asked.config.url
        data == asked.config.data
        queried == [acc EXCEPT
            !.events = Append(@, [op |-> "getRequestConfig", slot |-> slot,
                                  arg |-> asked.arg]),
            !.returned = Append(@, asked.config)]
        k == FindMatchingRequest(acc.requests, url.val)
    IN IF IsNullURL(url) THEN queried
       ELSE IF IsNotAString(url) THEN [queried EXCEPT !.threw = TRUE]
       ELSE IF k # 0
            THEN [queried EXCEPT
                    !.requests[k] = RequestAddUpdater(@, slot, data)]
       ELSE IF RequestConstructorThrows(url, signal)
            THEN [queried EXCEPT !.threw = TRUE]
       ELSE [queried EXCEPT
                !.requests = Append(@,
                    RequestAddUpdater(NewRequest(url, signal), slot, data)),
                !.events = Append(@, [op |-> "new Request", url |-> url.val,
                                      signal |-> signal])]

\* A reduce that visits the first element only.
Reduce_FirstOnly(acc, toAsk, signal) ==
    IF toAsk = <<>> THEN acc ELSE ReduceStep(acc, Head(toAsk), signal)

\* this.#updaters.reduce(..., []) over the updaters left to ask; asking one
\* yields asked.config, and an exception ends the reduce.
RECURSIVE Reduce(_, _, _)
Reduce(acc, toAsk, signal) ==
    IF toAsk = <<>> \/ acc.threw THEN acc
    ELSE Reduce(ReduceStep(acc, Head(toAsk), signal), Tail(toAsk), signal)

\* The accumulator before the reduce, after the head of loadContent ran.
StartOfReduce(previous, signal) ==
    [ requests |-> <<>>, threw |-> FALSE, returned |-> <<>>,
      events |-> (IF previous # 0
                  THEN <<[op |-> "abort", signal |-> previous]>>
                  ELSE <<>>)
                 \o <<[op |-> "new AbortController", signal |-> signal]>> ]

\* A fetch of whatever was built, also when the reduce threw.
RequestsToFetch_All(acc) == acc.requests

\* A forEach that starts at the request built last.
RequestsToFetch_Reversed(acc) ==
    IF acc.threw THEN <<>>
    ELSE [i \in 1..Len(acc.requests) |->
            acc.requests[Len(acc.requests) + 1 - i]]

\* The requests that line 220 reaches: none when the reduce threw.
RequestsToFetch(acc) == IF acc.threw THEN <<>> ELSE acc.requests

\* A forEach that ends after the first request.
LoadingCalls_FirstOnly(reqs, latest) ==
    IF reqs = <<>> THEN <<>>
    ELSE CallAllUpdaters(Head(reqs), LoadingUpdate(Head(reqs)), latest)

\* requests.forEach((request) => request.fetch()): the 'loading' calls made,
\* request after request.
RECURSIVE LoadingCalls(_, _)
LoadingCalls(reqs, latest) ==
    IF reqs = <<>> THEN <<>>
    ELSE CallAllUpdaters(Head(reqs), LoadingUpdate(Head(reqs)), latest)
         \o LoadingCalls(Tail(reqs), latest)

\* The steps of the synchronous part of one fetch() call: the 'loading' round
\* over the updaters, then the call of the global fetch.
FetchStart(request, latest) ==
    LET round == CallAllUpdaters(request, LoadingUpdate(request), latest)
    IN [i \in 1..Len(round) |->
            [ op |-> "updateResponseStatus", url |-> request.url,
              slot |-> round[i].updater, status |-> round[i].arg.status ]]
       \o <<[op |-> "fetch", url |-> request.url]>>

RECURSIVE FetchStarts(_, _)
FetchStarts(reqs, latest) ==
    IF reqs = <<>> THEN <<>>
    ELSE FetchStart(Head(reqs), latest) \o FetchStarts(Tail(reqs), latest)

\* ... and the state each request is left in: suspended at await fetch(...).
Suspend(request) == [request EXCEPT !.pc = "fetching"]

\* ------------------------------------------------------------ actions
\* No event was dispatched yet.  Of an event, left counts the listeners that
\* still have to run and made the calls of the pool made for it so far; loads
\* counts the loadDynamicContent events dispatched.
NoEvent ==
    [type |-> "none", detail |-> Undefined, left |-> 0, made |-> 0, loads |-> 0]

\* The three children of a content-updater, named by the status they show:
\* [data-loading], [data-error] and [data-content].
ChildOf == [loading |-> "data-loading", failed |-> "data-error",
            loaded |-> "data-content"]
Children == DOMAIN ChildOf

\* What is seen of the children: the display property of their style ("" when
\* it is not set) and their innerHTML, a sequence of pieces of text.
ChildrenAsWritten ==
    [ display |-> [key \in Children |-> ""],
      innerHTML |-> [key \in Children |->
                        IF key = "loaded" THEN <<"initial">> ELSE <<>>] ]

\* document.createElement('content-updater'): no attribute, no child.
\* handled, error, handledAsMain, before, contentUpdate and scrolled are
\* written down for the latest #updateResponseStatus call; asked, clonedURL,
\* requestConfig and configError for the latest #getRequestConfig call.
CreatedContentUpdater ==
    [ isMainContent |-> FALSE,
      endpointURL |-> [present |-> FALSE, pathname |-> "", query |-> <<>>],
      children |-> FALSE,
      dom |-> ChildrenAsWritten,
      handled |-> [status |-> Undefined], error |-> Undefined,
      handledAsMain |-> FALSE, before |-> ChildrenAsWritten,
      contentUpdate |-> Undefined, scrolled |-> FALSE,
      asked |-> [searchParams |-> <<>>, action |-> Undefined],
      clonedURL |-> [pathname |-> "", query |-> <<>>],
      requestConfig |-> [url |-> <<>>,
                         data |-> [type |-> "undefined", action |-> Undefined]],
      configError |-> Undefined ]

\* No async-loader element was created yet.  Of the element, fetches holds
\* every #fetchData call with the place it has reached, shown what the
\* content container holds and the fetch that put it there, statusEvents the
\* asyncLoaderSuccess and asyncLoaderFail events dispatched, triggers the
\* number of trigger events handled and lastTrigger how the latest ended.
NoAsyncLoader ==
    [ created |-> FALSE,
      endpointURL |-> JSNull,
      eventEndpointPropertyName |-> JSNull,
      loadOnce |-> FALSE,
      loadingStatus |-> "initial",
      shown |-> [by |-> 0, what |-> "initial"],
      fetches |-> <<>>,
      statusEvents |-> <<>>,
      triggers |-> 0,
      lastTrigger |-> Undefined,
      error |-> Undefined ]

Init ==
    /\ updaters = <<>>
    /\ latestAbortController = 0
    /\ controllers = 0
    /\ aborted = {}
    /\ requests = <<>>
    /\ calls = <<>>
    /\ returned = <<>>
    /\ thrown = <<>>
    /\ events = <<>>
    /\ unhandledRejections = {}
    /\ constructed = 0
    /\ lastCall = [op |-> "new RequestPool", error |-> Undefined]
    /\ listeners = 0
    /\ dispatched = NoEvent
    /\ contentUpdater = CreatedContentUpdater
    /\ asyncLoader = NoAsyncLoader

\* An updater object: { getRequestConfig, updateResponseStatus }, both
\* functions; id tells the objects apart.
NewUpdater(id) ==
    [id |-> id, getRequestConfig |-> "function", updateResponseStatus |-> "function"]

\* An addUpdater that detects duplicates: an object already in the registry
\* is not pushed again.
RegisterUpdater_NoDuplicates(updater) ==
    /\ lastCall' = [op |-> "addUpdater", arg |-> updater,
                    error |-> ValidateUpdater(updater)]
    /\ updaters' = IF \/ ValidateUpdater(updater) # Undefined
                      \/ \E slot \in DOMAIN updaters : updaters[slot] = updater
                   THEN updaters
                   ELSE Append(updaters, updater)
    /\ UNCHANGED <<latestAbortController, controllers, aborted, requests,
                   calls, returned, thrown, events, unhandledRejections,
                   constructed>>

\* An addUpdater that also adds the updater to the Requests in flight.
RegisterUpdater_JoinsInFlight(updater) ==
    /\ lastCall' = [op |-> "addUpdater", arg |-> updater,
                    error |-> ValidateUpdater(updater)]
    /\ updaters' = IF ValidateUpdater(updater) # Undefined THEN updaters
                   ELSE Append(updaters, updater)
    /\ requests' = IF ValidateUpdater(updater) # Undefined THEN requests
                   ELSE [r \in 1..Len(requests) |->
                            RequestAddUpdater(requests[r], Len(updaters) + 1,
                                              Undefined)]
    /\ UNCHANGED <<latestAbortController, controllers, aborted,
                   calls, returned, thrown, events, unhandledRejections,
                   constructed>>

\* RequestPool.addUpdater(updater): the updater is validated, which throws
\* or not, and then pushed.
RegisterUpdater(updater) ==
    /\ lastCall' = [op |-> "addUpdater", arg |-> updater,
                    error |-> ValidateUpdater(updater)]
    /\ updaters' = IF ValidateUpdater(updater) # Undefined THEN updaters
                   ELSE Append(updaters, updater)
    /\ UNCHANGED <<latestAbortController, controllers, aborted, requests,
                   calls, returned, thrown, events, unhandledRejections,
                   constructed>>

\* RequestPool.addUpdater(updater) with a valid updater object, before the
\* first loadContent call.
AddUpdater ==
    /\ controllers = 0
    /\ Len(updaters) < MaxUpdaters
    /\ RegisterUpdater(NewUpdater(Len(updaters) + 1))

\* What the model remembers.  A Request whose fetch() has ended (or was never
\* called) before a loadContent call can do nothing any more; that call drops
\* it from the model together with the calls and rejections recorded for it.
\* What is recorded about a cycle is dropped with the last of its Requests.
Unsettled(request) == request.pc \in {"fetching", "reading", "readResolved"}

Remembered(cycle, url, kept) ==
    \E k \in 1..Len(kept) : kept[k].signal = cycle /\ kept[k].url = url

RememberedCycles(kept) == {kept[k].signal : k \in 1..Len(kept)}

\* A continuation waits in the queue during at most one loadContent call.
OlderSettled ==
    \A r \in 1..Len(requests) :
        requests[r].signal < latestAbortController
            => requests[r].pc # "readResolved"

\* An updater that is not asked any more, because an updater before it made
\* loadContent throw, returns nothing: its entry of urls is left at null.
Asked(urls) ==
    \A slot \in DOMAIN urls :
        (\E before \in 1..(slot - 1) :
            RequestConstructorThrows(urls[before], 1) /\ ~IsNullURL(urls[before]))
        => urls[slot] = JSNull

\* RequestPool.loadContent(requestConfiguration) after the validation of
\* requestConfiguration has passed; urls[slot] is the url that the
\* getRequestConfig of the updater registered at slot returns when it is
\* asked in this call.
LoadValidated(config, urls) ==
    /\ controllers < MaxCycles
    /\ OlderSettled
    /\ LET signal == NewAbortController(controllers)
           previous == latestAbortController
           toAsk == [slot \in 1..Len(updaters) |->
                        [slot |-> slot,
                         arg |-> config,
                         config |-> [url |-> urls[slot],
                                     data |-> DataOf(slot, signal)]]]
           acc == Reduce(StartOfReduce(previous, signal), toAsk, signal)
           fetched == RequestsToFetch(acc)
           rest == IF acc.threw THEN acc.requests ELSE <<>>
           kept == SelectSeq(requests, Unsettled)
           cycles == RememberedCycles(kept) \cup {signal}
       IN /\ constructed + Len(acc.requests) <= MaxRequests
          /\ constructed' = constructed + Len(acc.requests)
          /\ aborted' = AbortExisting(previous, aborted)
          /\ latestAbortController' = signal
          /\ controllers' = signal
          /\ requests' = [r \in 1..Len(kept) |-> AbortInFlight(kept[r], aborted')]
                \o [i \in 1..Len(fetched) |-> Suspend(fetched[i])] \o rest
          /\ unhandledRejections' =
                { [signal |-> kept[r].signal, url |-> kept[r].url,
                        reason |-> "abort"] :
                         r \in {q \in 1..Len(kept) :
                                  AbortsFetch(kept[q], aborted')} }
          /\ calls' = SelectSeq(calls,
                              LAMBDA c : Remembered(c.cycle, c.from, kept))
                \o LoadingCalls(fetched, signal)
          /\ returned' = [c \in cycles |->
                            IF c = signal THEN acc.returned ELSE returned[c]]
          /\ thrown' = [c \in cycles |->
                            IF c = signal THEN acc.threw ELSE thrown[c]]
          /\ events' = acc.events \o FetchStarts(fetched, signal)
          /\ lastCall' = [op |-> "loadContent", arg |-> config,
                          warned |-> WarnsOfInvalidKeys(config),
                          error |-> IF acc.threw THEN "url" ELSE Undefined]
    /\ UNCHANGED updaters

\* A loadContent that validates after it has aborted the controller of the
\* call before.
LoadRejected_AfterAbort(config) ==
    /\ lastCall' = [op |-> "loadContent", arg |-> config,
                    warned |-> WarnsOfInvalidKeys(config),
                    error |-> ValidateRequestConfiguration(config)]
    /\ aborted' = AbortExisting(latestAbortController, aborted)
    /\ requests' = [r \in 1..Len(requests) |->
                        AbortInFlight(requests[r], aborted')]
    /\ UNCHANGED <<updaters, latestAbortController, controllers,
                   calls, returned, thrown, events,
                   unhandledRejections, constructed>>

\* RequestPool.loadContent(requestConfiguration) that ends in the validation
\* of requestConfiguration, at the head of the method.
LoadRejected(config) ==
    /\ lastCall' = [op |-> "loadContent", arg |-> config,
                    warned |-> WarnsOfInvalidKeys(config),
                    error |-> ValidateRequestConfiguration(config)]
    /\ UNCHANGED <<updaters, latestAbortController, controllers, aborted,
                   requests, calls, returned, thrown, events,
                   unhandledRejections, constructed>>

\* RequestPool.loadContent(requestConfiguration).
LoadContentWith(config, urls) ==
    IF ValidateRequestConfiguration(config) # Undefined
    THEN LoadRejected(config)
    ELSE LoadValidated(config, urls)

\* ... called with { searchParams }.
LoadContent(urls) == LoadContentWith(PlainConfiguration, urls)

\* ---------------------------------------------- Request.fetch(), suspended
Pending(r, pc) == r \in 1..Len(requests) /\ requests[r].pc = pc

\* The event loop: a queued continuation runs before the next task, and what
\* the network reports arrives as a task.
NoContinuationQueued ==
    \A q \in 1..Len(requests) : requests[q].pc # "readResolved"

\* The promise of an async fetch() call rejects.  loadContent dropped that
\* promise (forEach ignores what the callback returns), so no handler is
\* attached to it and the rejection is reported as unhandled.
Reject(r, reason) ==
    /\ requests' = [requests EXCEPT ![r].pc = "rejected",
                                    ![r].response = Undefined,
                                    ![r].error = reason]
    /\ unhandledRejections' =
            unhandledRejections \cup {[signal |-> requests[r].signal,
                                        url |-> requests[r].url,
                                        reason |-> reason]}
    /\ UNCHANGED <<updaters, latestAbortController, controllers, aborted,
                   calls, returned, thrown, events, constructed, lastCall>>

\* The network answers: `await fetch(url, { signal })` yields a Response,
\* response.text() is called and the function suspends again.
FetchResolves(r) ==
    /\ NoContinuationQueued
    /\ Pending(r, "fetching")
    /\ requests' = [requests EXCEPT ![r].pc = "reading",
                                    ![r].response = ServerResponse(requests[r].url)]
    /\ UNCHANGED <<updaters, latestAbortController, controllers, aborted,
                   calls, returned, thrown, events, unhandledRejections,
                   constructed, lastCall>>

\* The fetch fails for a network reason (offline, DNS): await throws.
FetchFails(r) ==
    /\ NoContinuationQueued
    /\ Pending(r, "fetching")
    /\ Reject(r, "network")

\* The body has arrived: the promise of response.text() is fulfilled.  Its
\* continuation is queued and has not run yet.
TextResolves(r) ==
    /\ NoContinuationQueued
    /\ Pending(r, "reading")
    /\ requests' = [requests EXCEPT ![r].pc = "readResolved",
                                    ![r].content = requests[r].response.body]
    /\ UNCHANGED <<updaters, latestAbortController, controllers, aborted,
                   calls, returned, thrown, events, unhandledRejections,
                   constructed, lastCall>>

\* Reading the body fails (connection lost, text() rejects): await throws.
TextFails(r) ==
    /\ NoContinuationQueued
    /\ Pending(r, "reading")
    /\ Reject(r, "text")

\* Continuation of `await response.text()`: the terminal update goes to all
\* updaters.  The signal is not looked at.
Distribute(r) ==
    /\ Pending(r, "readResolved")
    /\ calls' = calls \o CallAllUpdaters(requests[r],
                            TerminalUpdate(requests[r]), latestAbortController)
    /\ requests' = [requests EXCEPT ![r].pc = "done"]
    /\ UNCHANGED <<updaters, latestAbortController, controllers, aborted,
                   returned, thrown, events, unhandledRejections, constructed,
                   lastCall>>

Next ==
    \/ AddUpdater /\ UNCHANGED elementVars
    \/ \E urls \in [1..Len(updaters) -> URLValues] :
            Asked(urls) /\ LoadContent(urls) /\ UNCHANGED elementVars
    \/ \E r \in 1..Len(requests) :
        \/ FetchResolves(r) /\ UNCHANGED elementVars
        \/ FetchFails(r) /\ UNCHANGED elementVars
        \/ TextResolves(r) /\ UNCHANGED elementVars
        \/ TextFails(r) /\ UNCHANGED elementVars
        \/ Distribute(r) /\ UNCHANGED elementVars

Spec == Init /\ [][Next]_vars

\* ---------------------------------------- the public methods, any argument
\* The pool called with whatever a caller may pass: addUpdater with updater
\* objects whose properties are functions or not, loadContent with any
\* requestConfiguration.  Every updater returns /a.
UpdaterObjects ==
    { [id |-> Len(updaters) + 1, getRequestConfig |-> g,
       updateResponseStatus |-> u] : g, u \in PropertyKinds }

AddUpdaterAny ==
    \E updater \in UpdaterObjects :
        /\ controllers = 0
        /\ Len(updaters) < MaxUpdaters
        /\ RegisterUpdater(updater)
        /\ UNCHANGED elementVars

LoadContentAny ==
    \E config \in RequestConfigurations :
        /\ LoadContentWith(config, [slot \in 1..Len(updaters) |-> JSString("/a")])
        /\ UNCHANGED elementVars

NextAnyArgument ==
    \/ AddUpdaterAny
    \/ LoadContentAny
    \/ \E r \in 1..Len(requests) :
        \/ FetchResolves(r) /\ UNCHANGED elementVars
        \/ FetchFails(r) /\ UNCHANGED elementVars
        \/ TextResolves(r) /\ UNCHANGED elementVars
        \/ TextFails(r) /\ UNCHANGED elementVars
        \/ Distribute(r) /\ UNCHANGED elementVars

SpecAnyArgument == Init /\ [][NextAnyArgument]_vars

\* ------------------------------------- the registry over several cycles
\* The registrations that the model goes up to.
MaxSlots == 3

\* The updater objects that a page registers, some of them more than once.
\* They are numbered in the order of their first registration.
FirstRegistered(id) ==
    id = 1 \/ \E slot \in DOMAIN updaters : updaters[slot].id = id - 1

\* No Request of the pool is waiting for the network or for its turn.
AllSettled == \A r \in 1..Len(requests) : ~Unsettled(requests[r])

\* RequestPool.addUpdater(updater), before and between cycles, also with an
\* object that is registered already.
AddUpdaterAgain ==
    \E id \in 1..2 :
        /\ AllSettled
        /\ Len(updaters) < MaxSlots
        /\ FirstRegistered(id)
        /\ RegisterUpdater(NewUpdater(id))
        /\ UNCHANGED elementVars

\* The urls that the updaters of a page return: nothing to fetch, or the
\* endpoint of the page.
EndpointURLs == {JSNull, JSString("/a")}

LoadContentOfPage ==
    \E urls \in [1..Len(updaters) -> EndpointURLs] :
        LoadContent(urls) /\ UNCHANGED elementVars

NextRegistry ==
    \/ AddUpdaterAgain
    \/ LoadContentOfPage
    \/ \E r \in 1..Len(requests) :
        \/ FetchResolves(r) /\ UNCHANGED elementVars
        \/ TextResolves(r) /\ UNCHANGED elementVars
        \/ Distribute(r) /\ UNCHANGED elementVars

SpecRegistry == Init /\ [][NextRegistry]_vars

\* ------------------------------------------------ inputs-updater element
\* requestConfigurations with a searchParams and a reset, which is left out,
\* true, false or, against the rules, the string 'yes'; resetValue is what
\* the property holds.
ResetConfigurations ==
    { [PlainConfiguration EXCEPT !.reset = kind[1]] @@ [resetValue |-> kind[2]] :
        kind \in { <<"absent", "undefined">>, <<"boolean", "true">>,
                   <<"boolean", "false">>, <<"string", "yes">> } }

\* Is a value truthy, as `reset ? ... : ...` finds it?
Truthy(value) == value \notin {"undefined", "false", "null", "", "0"}

\* What a call of getRequestConfig yields when it throws.  The exception
\* leaves the reduce of loadContent as the one thrown for a url that is not
\* a string does.
Exception(message) == [type |-> "exception", val |-> message]

\* The two updaters of a filter page: an inputs-updater, with or without the
\* attribute data-endpoint-url, and an updater for the results, which always
\* has something to fetch.
InputsUpdaterElement(endpointUrl) ==
    NewUpdater("inputs-updater") @@ [endpointUrl |-> endpointUrl]
ResultsUpdater == NewUpdater("results") @@ [endpointUrl |-> "/a"]

\* InputsUpdater.#getEndpoint() and the template string around it, for a
\* searchParams without entries.
InputsURL(endpointUrl) ==
    IF endpointUrl = "" THEN JSString("?") ELSE JSString("/inputs?")

\* An inputs-updater that takes part in every cycle.
InputsGetRequestConfig_Always(element, config) ==
    IF element.endpointUrl = Undefined THEN Exception("data-endpoint-url")
    ELSE InputsURL(element.endpointUrl)

\* InputsUpdater.#getRequestConfig({ searchParams, reset }): the url of what
\* it returns, or the exception of #getEndpoint.
InputsGetRequestConfig(element, config) ==
    IF Truthy(config.resetValue)
    THEN IF element.endpointUrl = Undefined THEN Exception("data-endpoint-url")
         ELSE InputsURL(element.endpointUrl)
    ELSE JSNull

\* The url that the updater at a slot of the page returns.
URLOfPage(updater, config) ==
    IF updater.id = "inputs-updater" THEN InputsGetRequestConfig(updater, config)
    ELSE JSString(updater.endpointUrl)

\* The elements of the page announce themselves, the inputs-updater first.
AddUpdaterOfPage ==
    /\ controllers = 0
    /\ \/ /\ updaters = <<>>
          /\ \E endpointUrl \in {Undefined, "", "/inputs"} :
                RegisterUpdater(InputsUpdaterElement(endpointUrl))
       \/ /\ Len(updaters) = 1
          /\ RegisterUpdater(ResultsUpdater)
    /\ UNCHANGED elementVars

\* RequestPool.loadContent({ searchParams, reset }) on the page.
LoadContentWithReset ==
    \E config \in ResetConfigurations :
        /\ NoContinuationQueued
        /\ LoadContentWith(config,
                [slot \in 1..Len(updaters) |-> URLOfPage(updaters[slot], config)])
        /\ UNCHANGED elementVars

NextInputs ==
    \/ AddUpdaterOfPage
    \/ LoadContentWithReset
    \/ \E r \in 1..Len(requests) :
        \/ FetchResolves(r) /\ UNCHANGED elementVars
        \/ TextResolves(r) /\ UNCHANGED elementVars
        \/ Distribute(r) /\ UNCHANGED elementVars

SpecInputs == Init /\ [][NextInputs]_vars

\* ------------------------------------------- statusHandlers that throw
\* What an updateResponseStatus may do with an update: handle it, or throw
\* when it is told 'loading', or throw when it is told 'loaded' (as the one of
\* InputsUpdater does with a body that is not JSON; no body of ServerResponse
\* is).
HandlerKinds == {"never", "loading", "loaded"}

ThrowingUpdater(id, kind) == NewUpdater(id) @@ [throwsOn |-> kind]

\* Does the updateResponseStatus of the updater at slot throw on update?
HandlerThrows(slot, update) == updaters[slot].throwsOn = update.status

\* The first call of a round that throws, 0 if none does.
FirstThrow(round) ==
    LET throwing == {i \in 1..Len(round) :
                        HandlerThrows(round[i].updater, round[i].arg)}
    IN IF throwing = {} THEN 0
       ELSE CHOOSE i \in throwing : \A j \in throwing : i <= j

\* Request.#callAllUpdaters(data) with handlers that may throw: forEach has
\* no try around the call, so the exception of a handler ends the loop.
CallsUntilThrow(round) ==
    IF FirstThrow(round) = 0 THEN round
    ELSE SubSeq(round, 1, FirstThrow(round))

LoadingRound(request, latest) ==
    CallAllUpdaters(request, LoadingUpdate(request), latest)

\* An exception inside the async fetch() rejects the promise it returned.
RejectedByHandler(request) ==
    [request EXCEPT !.pc = "rejected", !.error = "handler"]

\* Request.fetch() up to its first await: the 'loading' round, and the
\* global fetch if the round came to its end.
StartFetch(request, latest) ==
    IF FirstThrow(LoadingRound(request, latest)) = 0 THEN Suspend(request)
    ELSE RejectedByHandler(request)

\* requests.forEach((request) => request.fetch()): every fetch() returns a
\* promise, rejected or not, and forEach goes on to the next request.
RECURSIVE LoadingCallsUntilThrow(_, _)
LoadingCallsUntilThrow(reqs, latest) ==
    IF reqs = <<>> THEN <<>>
    ELSE CallsUntilThrow(LoadingRound(Head(reqs), latest))
         \o LoadingCallsUntilThrow(Tail(reqs), latest)

RECURSIVE FetchStartsUntilThrow(_, _)
FetchStartsUntilThrow(reqs, latest) ==
    IF reqs = <<>> THEN <<>>
    ELSE LET round == LoadingRound(Head(reqs), latest)
             made == CallsUntilThrow(round)
         IN [i \in 1..Len(made) |->
                [ op |-> "updateResponseStatus", url |-> Head(reqs).url,
                  slot |-> made[i].updater, status |-> made[i].arg.status ]]
            \o (IF FirstThrow(round) = 0
                THEN <<[op |-> "fetch", url |-> Head(reqs).url]>> ELSE <<>>)
            \o FetchStartsUntilThrow(Tail(reqs), latest)

AddThrowingUpdater ==
    /\ controllers = 0
    /\ Len(updaters) < MaxUpdaters
    /\ \E kind \in HandlerKinds :
            RegisterUpdater(ThrowingUpdater(Len(updaters) + 1, kind))
    /\ UNCHANGED elementVars

\* RequestPool.loadContent({ searchParams }) with updaters that return /a or
\* /b and handle the updates as their kind says.
LoadContentOfThrowing ==
    /\ NoContinuationQueued
    /\ controllers < MaxCycles
    /\ OlderSettled
    /\ \E urls \in [1..Len(updaters) -> {JSString("/a"), JSString("/b")}] :
        LET signal == NewAbortController(controllers)
            previous == latestAbortController
            toAsk == [slot \in 1..Len(updaters) |->
                        [slot |-> slot,
                         arg |-> PlainConfiguration,
                         config |-> [url |-> urls[slot],
                                     data |-> DataOf(slot, signal)]]]
            acc == Reduce(StartOfReduce(previous, signal), toAsk, signal)
            fetched == RequestsToFetch(acc)
            kept == SelectSeq(requests, Unsettled)
            cycles == RememberedCycles(kept) \cup {signal}
        IN /\ constructed + Len(acc.requests) <= MaxRequests
           /\ constructed' = constructed + Len(acc.requests)
           /\ aborted' = AbortExisting(previous, aborted)
           /\ latestAbortController' = signal
           /\ controllers' = signal
           /\ requests' =
                [r \in 1..Len(kept) |-> AbortInFlight(kept[r], aborted')]
                \o [i \in 1..Len(fetched) |-> StartFetch(fetched[i], signal)]
           /\ unhandledRejections' =
                { [signal |-> kept[r].signal, url |-> kept[r].url,
                   reason |-> "abort"] :
                     r \in {q \in 1..Len(kept) : AbortsFetch(kept[q], aborted')} }
                \cup
                { [signal |-> signal, url |-> fetched[i].url,
                   reason |-> "handler"] :
                     i \in {j \in 1..Len(fetched) :
                              FirstThrow(LoadingRound(fetched[j], signal)) # 0} }
           /\ calls' = SelectSeq(calls,
                               LAMBDA c : Remembered(c.cycle, c.from, kept))
                 \o LoadingCallsUntilThrow(fetched, signal)
           /\ returned' = [c \in cycles |->
                             IF c = signal THEN acc.returned ELSE returned[c]]
           /\ thrown' = [c \in cycles |->
                             IF c = signal THEN acc.threw ELSE thrown[c]]
           /\ events' = acc.events \o FetchStartsUntilThrow(fetched, signal)
           /\ lastCall' = [op |-> "loadContent", arg |-> PlainConfiguration,
                           warned |-> WarnsOfInvalidKeys(PlainConfiguration),
                           error |-> Undefined]
    /\ UNCHANGED updaters
    /\ UNCHANGED elementVars

\* Continuation of `await response.text()` with handlers that may throw.
DistributeUntilThrow(r) ==
    /\ Pending(r, "readResolved")
    /\ LET round == CallAllUpdaters(requests[r], TerminalUpdate(requests[r]),
                                    latestAbortController)
       IN /\ calls' = calls \o CallsUntilThrow(round)
          /\ requests' = [requests EXCEPT
                            ![r] = IF FirstThrow(round) = 0
                                   THEN [@ EXCEPT !.pc = "done"]
                                   ELSE RejectedByHandler(@)]
          /\ unhandledRejections' =
                IF FirstThrow(round) = 0 THEN unhandledRejections
                ELSE unhandledRejections \cup
                        {[signal |-> requests[r].signal,
                          url |-> requests[r].url, reason |-> "handler"]}
    /\ UNCHANGED <<updaters, latestAbortController, controllers, aborted,
                   returned, thrown, events, constructed, lastCall>>
    /\ UNCHANGED elementVars

NextThrowing ==
    \/ AddThrowingUpdater
    \/ LoadContentOfThrowing
    \/ \E r \in 1..Len(requests) :
        \/ FetchResolves(r) /\ UNCHANGED elementVars
        \/ TextResolves(r) /\ UNCHANGED elementVars
        \/ DistributeUntilThrow(r)

SpecThrowing == Init /\ [][NextThrowing]_vars

\* --------------------------------- loadContent from inside a statusHandler
\* The place of the first TRUE in a sequence of booleans.
FirstIndex(hits) ==
    CHOOSE i \in 1..Len(hits) : hits[i] /\ \A j \in 1..(i - 1) : ~hits[j]

\* RequestPool.loadContent({ searchParams }) where the updateResponseStatus
\* of the updater at slot inner calls loadContent({ searchParams }) when it
\* is told 'loading' for the first time.  All of it is one synchronous run:
\* the outer call aborts, allocates its controller, reduces and starts its
\* forEach; the handler's call runs from head to end inside the 'loading'
\* round of the outer call; then the round and the forEach of the outer call
\* go on where they were.  A fetch(url, { signal }) in flight, or called with
\* a signal already aborted, rejects.
LoadContentReentrant ==
    /\ NoContinuationQueued
    /\ OlderSettled
    /\ controllers + 2 <= MaxCycles
    /\ \E inner \in 1..Len(updaters) :
       \E outerURLs, innerURLs \in
                [1..Len(updaters) -> {JSString("/a"), JSString("/b")}] :
        LET previous == latestAbortController
            outerSignal == NewAbortController(controllers)
            innerSignal == NewAbortController(outerSignal)
            ToAsk(urls, signal) ==
                [slot \in 1..Len(updaters) |->
                    [slot |-> slot,
                     arg |-> PlainConfiguration,
                     config |-> [url |-> urls[slot],
                                 data |-> DataOf(slot, signal)]]]
            outerAcc == Reduce(StartOfReduce(previous, outerSignal),
                               ToAsk(outerURLs, outerSignal), outerSignal)
            innerAcc == Reduce(StartOfReduce(outerSignal, innerSignal),
                               ToAsk(innerURLs, innerSignal), innerSignal)
            outer == RequestsToFetch(outerAcc)
            fetched == RequestsToFetch(innerAcc)
            rounds == LoadingCalls(outer, outerSignal)
            steps == FetchStarts(outer, outerSignal)
            entered == FirstIndex([i \in 1..Len(rounds) |->
                                        rounds[i].updater = inner])
            enteredStep == FirstIndex([i \in 1..Len(steps) |->
                                /\ steps[i].op = "updateResponseStatus"
                                /\ steps[i].slot = inner])
            kept == SelectSeq(requests, Unsettled)
            cycles == RememberedCycles(kept) \cup {outerSignal, innerSignal}
        IN /\ Len(outerAcc.requests) <= MaxRequests
           /\ Len(innerAcc.requests) <= MaxRequests
           /\ constructed' = constructed + Len(outerAcc.requests)
                                + Len(innerAcc.requests)
           /\ aborted' = AbortExisting(outerSignal,
                                       AbortExisting(previous, aborted))
           /\ latestAbortController' = innerSignal
           /\ controllers' = innerSignal
           /\ requests' =
                [r \in 1..Len(kept) |-> AbortInFlight(kept[r], aborted')]
                \o [i \in 1..Len(outer) |->
                        AbortInFlight(Suspend(outer[i]), aborted')]
                \o [i \in 1..Len(fetched) |-> Suspend(fetched[i])]
           /\ unhandledRejections' =
                { [signal |-> kept[r].signal, url |-> kept[r].url,
                   reason |-> "abort"] :
                     r \in {q \in 1..Len(kept) : AbortsFetch(kept[q], aborted')} }
                \cup
                { [signal |-> outerSignal, url |-> outer[i].url,
                   reason |-> "abort"] : i \in 1..Len(outer) }
           /\ calls' = SelectSeq(calls,
                               LAMBDA c : Remembered(c.cycle, c.from, kept))
                 \o SubSeq(LoadingCalls(outer, outerSignal), 1, entered)
                 \o LoadingCalls(fetched, innerSignal)
                 \o SubSeq(LoadingCalls(outer, innerSignal), entered + 1,
                           Len(LoadingCalls(outer, innerSignal)))
           /\ returned' = [c \in cycles |->
                             IF c = outerSignal THEN outerAcc.returned
                             ELSE IF c = innerSignal THEN innerAcc.returned
                             ELSE returned[c]]
           /\ thrown' = [c \in cycles |->
                             IF c \in {outerSignal, innerSignal} THEN FALSE
                             ELSE thrown[c]]
           /\ events' = outerAcc.events
                 \o SubSeq(FetchStarts(outer, outerSignal), 1, enteredStep)
                 \o innerAcc.events
                 \o FetchStarts(fetched, innerSignal)
                 \o SubSeq(FetchStarts(outer, innerSignal), enteredStep + 1,
                           Len(FetchStarts(outer, innerSignal)))
           /\ lastCall' = [op |-> "loadContent", arg |-> PlainConfiguration,
                           warned |-> WarnsOfInvalidKeys(PlainConfiguration),
                           error |-> Undefined]
    /\ UNCHANGED updaters
    /\ UNCHANGED elementVars

NextReentrant ==
    \/ AddUpdater /\ UNCHANGED elementVars
    \/ LoadContentReentrant
    \/ \E r \in 1..Len(requests) :
        \/ FetchResolves(r) /\ UNCHANGED elementVars
        \/ TextResolves(r) /\ UNCHANGED elementVars
        \/ Distribute(r) /\ UNCHANGED elementVars

SpecReentrant == Init /\ [][NextReentrant]_vars

\* ------------------------------------- registration while a cycle runs
\* RequestPool.addUpdater(updater) at any time: a content-updater announces
\* itself from a timer, whatever the pool is doing.
AddUpdaterInFlight ==
    /\ NoContinuationQueued
    /\ Len(updaters) < MaxUpdaters
    /\ RegisterUpdater(NewUpdater(Len(updaters) + 1))
    /\ UNCHANGED elementVars

NextLateRegistration ==
    \/ AddUpdaterInFlight
    \/ LoadContentOfPage
    \/ \E r \in 1..Len(requests) :
        \/ FetchResolves(r) /\ UNCHANGED elementVars
        \/ TextResolves(r) /\ UNCHANGED elementVars
        \/ Distribute(r) /\ UNCHANGED elementVars

SpecLateRegistration == Init /\ [][NextLateRegistration]_vars

\* --------------------------------------- a page with several producers
\* The updaters on a page that the model goes up to.
MaxProducers == 4

\* The urls that the updaters of a page with two endpoints return.
ProducerURLs == {JSNull, JSString("/a"), JSString("/b")}

\* RequestPool.addUpdater(updater) while the page is set up.
AddProducer ==
    /\ controllers = 0
    /\ Len(updaters) < MaxProducers
    /\ RegisterUpdater(NewUpdater(Len(updaters) + 1))
    /\ UNCHANGED elementVars

\* RequestPool.loadContent({ searchParams }), called when the cycle before
\* has come to its end.
LoadContentOfProducers ==
    \E urls \in [1..Len(updaters) -> ProducerURLs] :
        AllSettled /\ LoadContent(urls) /\ UNCHANGED elementVars

NextDelivery ==
    \/ AddProducer
    \/ LoadContentOfProducers
    \/ \E r \in 1..Len(requests) :
        \/ FetchResolves(r) /\ UNCHANGED elementVars
        \/ TextResolves(r) /\ UNCHANGED elementVars
        \/ Distribute(r) /\ UNCHANGED elementVars

SpecDelivery == Init /\ [][NextDelivery]_vars

\* ------------------------------------ dynamic-content-orchestrator element
\* The times the element is connected to a document that the model goes up to.
MaxConnections == 2

\* The listeners of all events have run.
NoListenerLeft == dispatched.left = 0

\* connectedCallback(): one more listener for each of the two events.  The
\* class has no disconnectedCallback, so a listener once added stays.
ConnectedCallback ==
    /\ NoListenerLeft
    /\ listeners < MaxConnections
    /\ listeners' = listeners + 1
    /\ UNCHANGED <<dispatched, contentUpdater, asyncLoader>>
    /\ UNCHANGED poolVars

\* The element is or was in a document.
Connected == listeners >= 1

\* dispatchEvent(new CustomEvent('addDynamicContentUpdater', { detail })) on
\* the connected element or below it: all listeners added so far will run in
\* turn.
DispatchAddUpdater ==
    /\ NoListenerLeft
    /\ Connected
    /\ NoContinuationQueued
    /\ Len(updaters) + listeners <= MaxUpdaters
    /\ dispatched' = [type |-> "addDynamicContentUpdater",
                      detail |-> NewUpdater(Len(updaters) + 1),
                      left |-> listeners, made |-> 0,
                      loads |-> dispatched.loads]
    /\ UNCHANGED <<listeners, contentUpdater, asyncLoader>>
    /\ UNCHANGED poolVars

\* dispatchEvent(new CustomEvent('loadDynamicContent',
\* { detail: { requestConfiguration } })).
DispatchLoadContent ==
    /\ NoListenerLeft
    /\ Connected
    /\ NoContinuationQueued
    /\ controllers + listeners <= MaxCycles
    /\ constructed + listeners <= MaxRequests
    /\ dispatched' = [type |-> "loadDynamicContent",
                      detail |-> [requestConfiguration |-> PlainConfiguration],
                      left |-> listeners, made |-> 0,
                      loads |-> dispatched.loads + 1]
    /\ UNCHANGED <<listeners, contentUpdater, asyncLoader>>
    /\ UNCHANGED poolVars

\* The next listener of the event runs: #addUpdater({ detail: updater }).
RunAddUpdaterListener ==
    /\ dispatched.type = "addDynamicContentUpdater"
    /\ dispatched.left > 0
    /\ RegisterUpdater(dispatched.detail)
    /\ dispatched' = [dispatched EXCEPT !.left = @ - 1, !.made = @ + 1]
    /\ UNCHANGED <<listeners, contentUpdater, asyncLoader>>

\* The next listener of the event runs:
\* #loadContent({ detail: { requestConfiguration } }).  Every updater of the
\* page returns the url of the one endpoint.
RunLoadContentListener ==
    /\ dispatched.type = "loadDynamicContent"
    /\ dispatched.left > 0
    /\ LoadContentWith(dispatched.detail.requestConfiguration,
                       [slot \in 1..Len(updaters) |-> JSString("/a")])
    /\ dispatched' = [dispatched EXCEPT !.left = @ - 1, !.made = @ + 1]
    /\ UNCHANGED <<listeners, contentUpdater, asyncLoader>>

NextElement ==
    \/ ConnectedCallback
    \/ DispatchAddUpdater
    \/ DispatchLoadContent
    \/ RunAddUpdaterListener
    \/ RunLoadContentListener
    \/ \E r \in 1..Len(requests) :
        \/ NoListenerLeft /\ FetchResolves(r) /\ UNCHANGED elementVars
        \/ NoListenerLeft /\ FetchFails(r) /\ UNCHANGED elementVars
        \/ NoListenerLeft /\ TextResolves(r) /\ UNCHANGED elementVars
        \/ NoListenerLeft /\ TextFails(r) /\ UNCHANGED elementVars
        \/ NoListenerLeft /\ Distribute(r) /\ UNCHANGED elementVars

SpecElement == Init /\ [][NextElement]_vars

\* --------------------------------------------------- addSearchParamsToURL
\* The entries of a URLSearchParams that the model goes up to.
MaxParams == 2

\* A URLSearchParams is the sequence of its entries, an entry a record of
\* key and value.
ParamKeys == {"a", "b"}
ParamValues == {"1", "2"}
Entries == [key : ParamKeys, value : ParamValues]

RECURSIVE SearchParamsUpTo(_)
SearchParamsUpTo(n) ==
    IF n = 0 THEN {<<>>}
    ELSE SearchParamsUpTo(n - 1)
         \cup {Append(params, entry) :
                    params \in SearchParamsUpTo(n - 1), entry \in Entries}

\* URLSearchParams.set(key, value): the first entry with the key gets the
\* value and all other entries with the key are removed; without such an
\* entry, one is appended.
SearchParamsSet(params, key, value) ==
    LET with == {i \in DOMAIN params : params[i].key = key}
    IN IF with = {} THEN Append(params, [key |-> key, value |-> value])
       ELSE LET first == CHOOSE i \in with : \A j \in with : i <= j
                marked == [i \in DOMAIN params |->
                            [ entry |-> IF i = first
                                        THEN [key |-> key, value |-> value]
                                        ELSE params[i],
                              kept |-> i = first \/ params[i].key # key ]]
                kept == SelectSeq(marked, LAMBDA m : m.kept)
            IN [i \in DOMAIN kept |-> kept[i].entry]

\* addSearchParamsToURL(url, searchParams): the loop over the entries of
\* searchParams on the cloned URL; a URL is a record of pathname and query.
RECURSIVE AddSearchParamsToURL(_, _)
AddSearchParamsToURL(url, searchParams) ==
    IF searchParams = <<>> THEN url
    ELSE AddSearchParamsToURL(
            [url EXCEPT !.query = SearchParamsSet(@, Head(searchParams).key,
                                                  Head(searchParams).value)],
            Tail(searchParams))

\* URLSearchParams.toString(): key=value, joined by &.
RECURSIVE QueryToString(_)
QueryToString(query) ==
    IF query = <<>> THEN <<>>
    ELSE (IF Len(query) > 1 THEN QueryToString(SubSeq(query, 1, Len(query) - 1))
                                 \o <<"&">>
          ELSE <<>>)
         \o <<query[Len(query)].key, "=", query[Len(query)].value>>

\* URL.toString(): origin, pathname and, when there is a query, ? and the
\* query; a string is the sequence of its pieces.
URLToString(url) ==
    <<"http://localhost", url.pathname>>
    \o (IF url.query = <<>> THEN <<>> ELSE <<"?">> \o QueryToString(url.query))

\* ------------------------------------------------ content-updater element
\* The pieces of text in [data-content] that the model goes up to.
MaxPieces == 3

\* The values of the attribute data-endpoint-url: missing, or a URL relative
\* to the origin, with or without a query; parsed, as
\* new URL(endpointURL, window.location.origin) does.
EndpointAttributes ==
    { [present |-> FALSE, pathname |-> "", query |-> <<>>],
      [present |-> TRUE, pathname |-> "/list", query |-> <<>>],
      [present |-> TRUE, pathname |-> "/list",
       query |-> <<[key |-> "a", value |-> "0"]>>] }

\* The action that a requestConfiguration carries: none, or what a
\* LinkListener puts there.
PaginateActions == {Undefined, "paginateAppend", "paginateReplace"}

\* The data of a status update: undefined, or the { action } that
\* #getRequestConfig returned.
UpdateData ==
    {[type |-> "undefined", action |-> Undefined]}
    \cup {[type |-> "object", action |-> action] : action \in PaginateActions}

\* data?.action
OptionalAction(data) ==
    IF data.type = "object" THEN data.action ELSE Undefined

\* The status updates that reach #updateResponseStatus, but for data: the
\* two rounds of a Request, and one with a status that is none of the three.
NoResponse == [ok |-> FALSE, status |-> 0, body |-> Undefined]
StatusUpdates ==
    { [status |-> "loading", content |-> Undefined, response |-> NoResponse],
      [status |-> "test", content |-> Undefined, response |-> NoResponse] }
    \cup { [status |-> TerminalUpdate([response |-> ServerResponse(url),
                                      content |-> Undefined]).status,
            content |-> ServerResponse(url).body,
            response |-> ServerResponse(url)] : url \in {"/a", "/b"} }

\* #updateResponseStatus: the guard at its head.
StatusIsInvalid(status) == status \notin {"loading", "loaded", "failed"}

\* ... and finalContent, a string as the sequence of its pieces (the dash of
\* the template is written as a hyphen).
FinalContent(update) ==
    IF update.status = "loaded" THEN <<update.content>>
    ELSE IF update.status = "failed"
         THEN <<"ERROR: Status ", ToString(update.response.status), " - ",
                update.content>>
    ELSE <<>>

\* A choice that appends whenever the action is paginateAppend.
DOMAction_AppendAnywhere(status, data, isMainContent) ==
    IF status = "failed" THEN "replace"
    ELSE IF status = "loaded"
         THEN IF OptionalAction(data) = "paginateAppend"
              THEN "append" ELSE "replace"
    ELSE Undefined

\* #updateDOM: the action chosen for the content.
DOMAction(status, data, isMainContent) ==
    IF status = "failed" THEN "replace"
    ELSE IF status = "loaded"
         THEN IF OptionalAction(data) = "paginateAppend" /\ isMainContent
              THEN "append" ELSE "replace"
    ELSE Undefined

\* #updateDOM: innerHTML of the children after `activeElement.innerHTML =
\* content` or `activeElement.insertAdjacentHTML('beforeend', content)`.
UpdateContent(innerHTML, status, content, action) ==
    IF action = "replace" THEN [innerHTML EXCEPT ![status] = content]
    ELSE IF action = "append" THEN [innerHTML EXCEPT ![status] = @ \o content]
    ELSE innerHTML

\* A rule that never keeps the content in sight while loading.
ForceShow_Never(status, data, key, isMainContent) == FALSE

\* #updateDOM: is the child of key shown although the status is another?
ForceShow(status, data, key, isMainContent) ==
    /\ status = "loading"
    /\ OptionalAction(data) = "paginateAppend"
    /\ key = "loaded"
    /\ isMainContent

\* #updateDOM: the display property of the children after the loop over
\* them; 'none' is set or the property is removed.
UpdateVisibility(status, data, isMainContent) ==
    [key \in Children |->
        IF key # status /\ ~ForceShow(status, data, key, isMainContent)
        THEN "none" ELSE ""]

\* #updateResponseStatus({ status, content, response, data }), whole; an
\* async function, so what it throws rejects the promise it returns.
\* #updateDOM has no await in it and runs in one go.
UpdateResponseStatus(update, data) ==
    LET given == update @@ [data |-> data]
        isMainContent == contentUpdater.isMainContent
        action == DOMAction(update.status, data, isMainContent)
        failure == IF StatusIsInvalid(update.status) THEN "status"
                   ELSE IF ~contentUpdater.children THEN "children"
                   ELSE Undefined
        dom == [ innerHTML |-> UpdateContent(contentUpdater.dom.innerHTML,
                                    update.status, FinalContent(update), action),
                 display |-> UpdateVisibility(update.status, data,
                                              isMainContent) ]
    IN /\ failure = Undefined => Len(dom.innerHTML.loaded) <= MaxPieces
       /\ contentUpdater' =
            [contentUpdater EXCEPT
                !.handled = given,
                !.error = failure,
                !.handledAsMain = isMainContent,
                !.before = contentUpdater.dom,
                !.dom = IF failure = Undefined THEN dom ELSE @,
                !.contentUpdate = IF failure = Undefined
                                  THEN update.status ELSE Undefined,
                !.scrolled = /\ failure = Undefined
                             /\ isMainContent
                             /\ OptionalAction(data) = "paginateReplace"]
       /\ UNCHANGED <<listeners, dispatched, asyncLoader>>
       /\ UNCHANGED poolVars

\* #getRequestConfig({ searchParams, action }), whole, with #getEndpointURL.
GetRequestConfig(searchParams, action) ==
    LET endpoint == contentUpdater.endpointURL
        url == AddSearchParamsToURL(
                    [pathname |-> endpoint.pathname, query |-> endpoint.query],
                    searchParams)
    IN /\ contentUpdater' =
            [contentUpdater EXCEPT
                !.asked = [searchParams |-> searchParams, action |-> action],
                !.clonedURL = IF endpoint.present THEN url
                              ELSE [pathname |-> "", query |-> <<>>],
                !.configError = IF endpoint.present THEN Undefined
                                ELSE "data-endpoint-url",
                !.requestConfig =
                    IF endpoint.present
                    THEN [url |-> URLToString(url),
                          data |-> [type |-> "object", action |-> action]]
                    ELSE [url |-> <<>>,
                          data |-> [type |-> "undefined", action |-> Undefined]]]
       /\ UNCHANGED <<listeners, dispatched, asyncLoader>>
       /\ UNCHANGED poolVars

\* The page gives the element its three children.
AppendChildren ==
    /\ ~contentUpdater.children
    /\ contentUpdater' = [contentUpdater EXCEPT !.children = TRUE]
    /\ UNCHANGED <<listeners, dispatched, asyncLoader>>
    /\ UNCHANGED poolVars

\* toggleAttribute('data-is-main-content')
ToggleMainContent ==
    /\ contentUpdater' = [contentUpdater EXCEPT !.isMainContent = ~@]
    /\ UNCHANGED <<listeners, dispatched, asyncLoader>>
    /\ UNCHANGED poolVars

\* setAttribute('data-endpoint-url', ...) or removeAttribute
SetEndpointURL(endpoint) ==
    /\ contentUpdater' = [contentUpdater EXCEPT !.endpointURL = endpoint]
    /\ UNCHANGED <<listeners, dispatched, asyncLoader>>
    /\ UNCHANGED poolVars

\* The element among its callers: updates arrive with any data.
NextContentUpdater ==
    \/ AppendChildren
    \/ ToggleMainContent
    \/ \E endpoint \in EndpointAttributes : SetEndpointURL(endpoint)
    \/ \E action \in PaginateActions : GetRequestConfig(<<>>, action)
    \/ \E update \in StatusUpdates, data \in UpdateData :
            UpdateResponseStatus(update, data)

SpecContentUpdater == Init /\ [][NextContentUpdater]_vars

\* #getRequestConfig with every searchParams and endpoint.
NextRequestConfig ==
    \/ \E endpoint \in EndpointAttributes : SetEndpointURL(endpoint)
    \/ \E searchParams \in SearchParamsUpTo(MaxParams),
          action \in PaginateActions :
            GetRequestConfig(searchParams, action)

SpecRequestConfig == Init /\ [][NextRequestConfig]_vars

\* ------------------------------------------------- async-loader element
MaxTriggers == 3

\* The constructor: the attributes are read, and one of data-endpoint-url
\* and data-event-endpoint-property-name has to be there.  The element is
\* connected at once, without data-trigger-event-filter.
ConstructAsyncLoader ==
    /\ ~asyncLoader.created
    /\ asyncLoader.error = Undefined
    /\ \E endpointURL \in {JSNull, JSString("/a")},
          propertyName \in {JSNull, JSString("url")},
          loadOnce \in BOOLEAN :
            asyncLoader' =
                IF endpointURL = JSNull /\ propertyName = JSNull
                THEN [asyncLoader EXCEPT !.error = "attributes"]
                ELSE [asyncLoader EXCEPT
                        !.created = TRUE,
                        !.endpointURL = endpointURL,
                        !.eventEndpointPropertyName = propertyName,
                        !.loadOnce = loadOnce]
    /\ UNCHANGED <<listeners, dispatched, contentUpdater>>
    /\ UNCHANGED poolVars

\* this.endpointURL || event.detail?.[this.eventEndpointPropertyName];
\* detail is the value of that property of the event, undefined if it has
\* none.
FetchURL(loader, detail) ==
    IF loader.endpointURL # JSNull THEN loader.endpointURL.val
    ELSE IF loader.eventEndpointPropertyName # JSNull THEN detail
    ELSE Undefined

\* A gate that knows of 'loaded' only.
RequestIsLoadingOrLoaded_LoadedOnly(loader) ==
    loader.loadingStatus \in {"loaded"}

\* [loading, loaded].includes(this.#loadingStatus)
RequestIsLoadingOrLoaded(loader) ==
    loader.loadingStatus \in {"loading", "loaded"}

\* #fetchData(fetchURL) up to `await fetch(fetchURL)`.
FetchData(loader, fetchURL) ==
    [loader EXCEPT
        !.loadingStatus = "loading",
        !.shown = [by |-> Len(loader.fetches) + 1, what |-> "loading-template"],
        !.fetches = Append(@, [url |-> fetchURL, pc |-> "fetching",
                               outcome |-> Undefined])]

\* #handleError(message, fetchURL, statusCode), called by the n-th
\* #fetchData, which ends with it.
HandleError(loader, n) ==
    [loader EXCEPT
        !.loadingStatus = "failed",
        !.statusEvents = Append(@, [type |-> "asyncLoaderFail",
                                    url |-> loader.fetches[n].url]),
        !.shown = [by |-> n, what |-> "error-template"],
        !.fetches[n].pc = "settled",
        !.fetches[n].outcome = "failed"]

\* The body that the server sends for a url.
LoaderBody(url) == IF url = "/a" THEN "A" ELSE "B"

\* #handleTiggerEvent(event) for an event of the type the element listens
\* to, with or without a url in its detail.
HandleTriggerEvent ==
    /\ asyncLoader.created
    /\ asyncLoader.triggers < MaxTriggers
    /\ \E detail \in {Undefined, "/a", "/b"} :
        LET fetchURL == FetchURL(asyncLoader, detail)
            counted == [asyncLoader EXCEPT !.triggers = @ + 1]
        IN asyncLoader' =
            IF fetchURL = Undefined
            THEN [counted EXCEPT !.lastTrigger = "threw"]
            ELSE IF asyncLoader.loadOnce /\ RequestIsLoadingOrLoaded(asyncLoader)
            THEN [counted EXCEPT !.lastTrigger = "returned"]
            ELSE [FetchData(counted, fetchURL) EXCEPT !.lastTrigger = "fetched"]
    /\ UNCHANGED <<listeners, dispatched, contentUpdater>>
    /\ UNCHANGED poolVars

\* `await fetch(fetchURL)` yields a response: one that is not ok ends the
\* function in #handleError, of one that is ok the body is read.
LoaderFetchResolves(n) ==
    /\ asyncLoader.fetches[n].pc = "fetching"
    /\ \E ok \in BOOLEAN :
        asyncLoader' = IF ok
                       THEN [asyncLoader EXCEPT !.fetches[n].pc = "reading"]
                       ELSE HandleError(asyncLoader, n)
    /\ UNCHANGED <<listeners, dispatched, contentUpdater>>
    /\ UNCHANGED poolVars

\* `await fetch(fetchURL)` or `await response.text()` throws: catch.
LoaderAwaitThrows(n) ==
    /\ asyncLoader.fetches[n].pc \in {"fetching", "reading"}
    /\ asyncLoader' = HandleError(asyncLoader, n)
    /\ UNCHANGED <<listeners, dispatched, contentUpdater>>
    /\ UNCHANGED poolVars

\* `await response.text()` yields the body.
LoaderTextResolves(n) ==
    /\ asyncLoader.fetches[n].pc = "reading"
    /\ asyncLoader' = [asyncLoader EXCEPT
            !.loadingStatus = "loaded",
            !.shown = [by |-> n, what |-> LoaderBody(asyncLoader.fetches[n].url)],
            !.statusEvents = Append(@, [type |-> "asyncLoaderSuccess",
                                        url |-> asyncLoader.fetches[n].url]),
            !.fetches[n].pc = "settled",
            !.fetches[n].outcome = "loaded"]
    /\ UNCHANGED <<listeners, dispatched, contentUpdater>>
    /\ UNCHANGED poolVars

NextAsyncLoader ==
    \/ ConstructAsyncLoader
    \/ HandleTriggerEvent
    \/ \E n \in 1..Len(asyncLoader.fetches) :
        \/ LoaderFetchResolves(n)
        \/ LoaderAwaitThrows(n)
        \/ LoaderTextResolves(n)

SpecAsyncLoader == Init /\ [][NextAsyncLoader]_vars

\* ------------------------------------------- Request, used without a pool
\* The handlers on one Request that the model goes up to.
MaxHandlers == 2

JSUndefined == [type |-> "undefined", val |-> "undefined"]

\* What a caller may pass for url, signal, updater and data.
RequestURLs == URLValues \cup {JSUndefined}
RequestSignals == {-1, 0, 1}
HandlerFunctions == {[type |-> "function", name |-> "f"],
                     [type |-> "function", name |-> "g"]}
HandlerValues == HandlerFunctions \cup {[type |-> "undefined", name |-> ""],
                                        [type |-> "string", name |-> "f"]}
HandlerData == {"a", "b"}

\* new Request({ url, signal }), called by a script that holds the only
\* reference: a constructor that throws leaves no object behind.
ConstructRequest(url, signal) ==
    /\ requests = <<>>
    /\ lastCall' = [op |-> "new Request",
                    arg |-> [url |-> url, signal |-> signal],
                    error |-> IF RequestConstructorThrows(url, signal)
                              THEN "Error" ELSE Undefined]
    /\ requests' = IF RequestConstructorThrows(url, signal)
                   THEN requests
                   ELSE Append(requests, NewRequest(url, signal))
    /\ UNCHANGED <<updaters, latestAbortController, controllers, aborted,
                   calls, returned, thrown, events, unhandledRejections,
                   constructed>>

\* request.addUpdater(updater, data), whole: the guard, then push and set.
\* What was registered is written down in events.
CallAddUpdater(r, updater, data) ==
    /\ NoContinuationQueued
    /\ r \in 1..Len(requests)
    /\ Len(SelectSeq(events, LAMBDA e : e.op = "Request.addUpdater"))
            < MaxHandlers
    /\ lastCall' = [op |-> "Request.addUpdater",
                    arg |-> [updater |-> updater, data |-> data],
                    error |-> IF AddUpdaterThrows(updater)
                              THEN "Error" ELSE Undefined]
    /\ requests' = IF AddUpdaterThrows(updater)
                   THEN requests
                   ELSE [requests EXCEPT
                            ![r] = RequestAddUpdater(@, updater, data)]
    /\ events' = IF AddUpdaterThrows(updater)
                 THEN events
                 ELSE Append(events, [op |-> "Request.addUpdater",
                                      updater |-> updater, data |-> data])
    /\ UNCHANGED <<updaters, latestAbortController, controllers, aborted,
                   calls, returned, thrown, unhandledRejections, constructed>>

\* request.fetch() up to its first await.
CallFetch(r) ==
    /\ NoContinuationQueued
    /\ Pending(r, "constructed")
    /\ calls' = calls \o CallAllUpdaters(requests[r],
                            LoadingUpdate(requests[r]), latestAbortController)
    /\ events' = events \o FetchStart(requests[r], latestAbortController)
    /\ requests' = [requests EXCEPT ![r] = Suspend(@)]
    /\ lastCall' = [op |-> "Request.fetch", arg |-> [request |-> r],
                    error |-> Undefined]
    /\ UNCHANGED <<updaters, latestAbortController, controllers, aborted,
                   returned, thrown, unhandledRejections, constructed>>

NextRequest ==
    \/ \E url \in RequestURLs, signal \in RequestSignals :
            ConstructRequest(url, signal) /\ UNCHANGED elementVars
    \/ \E r \in 1..Len(requests), updater \in HandlerValues,
          data \in HandlerData :
            CallAddUpdater(r, updater, data) /\ UNCHANGED elementVars
    \/ \E r \in 1..Len(requests) :
        \/ CallFetch(r) /\ UNCHANGED elementVars
        \/ FetchResolves(r) /\ UNCHANGED elementVars
        \/ FetchFails(r) /\ UNCHANGED elementVars
        \/ TextResolves(r) /\ UNCHANGED elementVars
        \/ TextFails(r) /\ UNCHANGED elementVars
        \/ Distribute(r) /\ UNCHANGED elementVars

SpecRequest == Init /\ [][NextRequest]_vars

\* ======================================================== the properties
\* The cycle that is current: the one of the latest loadContent call.
Current == latestAbortController

IsTerminal(call) == call.arg.status \in {"loaded", "failed"}

\* The statuses that the updater registered at slot received from the
\* Request for url of a cycle, in the order of the calls.
StatusesOf(cycle, url, slot) ==
    LET own == SelectSeq(calls, LAMBDA c :
                    c.cycle = cycle /\ c.from = url /\ c.updater = slot)
    IN [i \in 1..Len(own) |-> own[i].arg.status]

\* The Requests of a cycle that the model remembers.
RequestsOf(cycle) == SelectSeq(requests, LAMBDA q : q.signal = cycle)

\* The slots whose updater returned the string u in a cycle.
SlotsWith(cycle, u) ==
    {slot \in 1..Len(returned[cycle]) : returned[cycle][slot].url = JSString(u)}

\* The distinct url strings returned in a cycle.
DistinctURLs(cycle) ==
    {returned[cycle][slot].url.val :
        slot \in {j \in 1..Len(returned[cycle]) :
                    returned[cycle][j].url.type = "string"}}

\* How often the latest loadContent call did op for url.
CountEvents(op, url) ==
    Cardinality({i \in 1..Len(events) :
                    events[i].op = op /\ events[i].url = url})

\* The status a Request that is done has delivered last.
TerminalStatus(request) == IF request.response.ok THEN "loaded" ELSE "failed"

\* Nothing of the current cycle was executed: no fetch, no status update.
NothingExecuted ==
    /\ \A i \in 1..Len(events) : events[i].op # "fetch"
    /\ \A i \in 1..Len(calls) : calls[i].cycle # Current
    /\ \A r \in 1..Len(requests) :
            requests[r].signal = Current => requests[r].pc = "constructed"

\* ---------------------------------------------------------------- C1
\* C1, as claimed: once a later loadContent call has begun, no updater of an
\* earlier cycle is called with 'loaded' or 'failed'; every terminal update
\* is delivered while the cycle of its Request is still the current one.
C1_NoTerminalOnceSuperseded ==
    \A i \in 1..Len(calls) :
        IsTerminal(calls[i]) => calls[i].latest = calls[i].cycle

ProperURL(url) == url.type = "string" /\ url.val # ""

C4_CancelBeforeDispatch ==
    /\ \A i \in 1..Len(events) :
        /\ events[i].op = "abort" =>
                (i = 1 /\ events[i].signal = Current - 1)
        /\ events[i].op = "new AbortController" =>
                (events[i].signal = Current /\ i <= 2)
        /\ events[i].op \in {"getRequestConfig", "new Request", "fetch"} =>
                i > (IF Current >= 2 THEN 2 ELSE 1)
    /\ Current >= 2 => (events[1].op = "abort" /\ Current - 1 \in aborted)
    /\ \A signal \in 1..controllers : signal \in aborted <=> signal < Current
    /\ \A r \in 1..Len(requests) :
        requests[r].signal \in aborted <=> requests[r].signal # Current

\* Two cycles in succession with the same url: a Request of each is there.
C4_Witness ==
    /\ Current = 2
    /\ \E r, q \in 1..Len(requests) :
        /\ requests[r].signal = 1
        /\ requests[q].signal = 2
        /\ requests[r].url = requests[q].url

\* ---------------------------------------------------------------- C5
\* What loadContent builds when only the updaters that did not opt out are
\* asked.
WithoutOptOuts(cycle) ==
    LET all == [slot \in 1..Len(returned[cycle]) |->
                    [slot |-> slot, arg |-> lastCall.arg,
                     config |-> returned[cycle][slot]]]
        toAsk == SelectSeq(all, LAMBDA a : ~(a.config.url = JSNull))
    IN Reduce(StartOfReduce(0, cycle), toAsk, cycle)

\* What of a Request is settled when it is built.
Shape(reqs) ==
    [i \in 1..Len(reqs) |->
        [ url |-> reqs[i].url, signal |-> reqs[i].signal,
          updaters |-> reqs[i].updaters, data |-> reqs[i].data ]]

\* C5: an updater whose getRequestConfig returned a null url in a cycle gets
\* no status update of that cycle (every update goes to an updater that
\* returned the url of the Request it comes from), and the Requests built,
\* the outcome of loadContent and the 'loading' updates are those of a cycle
\* in which only the other updaters were asked.
C5_OptOut ==
    /\ \A i \in 1..Len(calls) :
        /\ calls[i].cycle \in DOMAIN returned
        /\ calls[i].updater \in 1..Len(returned[calls[i].cycle])
        /\ returned[calls[i].cycle][calls[i].updater].url
                = JSString(calls[i].from)
    /\ Current # 0 =>
        LET others == WithoutOptOuts(Current)
        IN /\ thrown[Current] = others.threw
           /\ Shape(RequestsOf(Current)) = Shape(others.requests)
           /\ SelectSeq(calls, LAMBDA c :
                    c.cycle = Current /\ c.arg.status = "loading")
                = LoadingCalls(RequestsToFetch(others), Current)

\* An updater opted out and another one has received its terminal status.
C5_Witness ==
    /\ Current # 0
    /\ \E slot \in 1..Len(returned[Current]) :
            returned[Current][slot].url = JSNull
    /\ \E r \in 1..Len(requests) :
        /\ requests[r].signal = Current
        /\ requests[r].pc = "done"
        /\ requests[r].updaters # <<>>

\* ---------------------------------------------------------------- C6
\* C6: every status update, 'loading' or terminal, carries the data that the
\* updater it goes to returned from getRequestConfig in the cycle of the
\* Request it comes from.
C6_DataRoundTrip ==
    \A i \in 1..Len(calls) :
        /\ "data" \in DOMAIN calls[i].arg
        /\ calls[i].arg.data = returned[calls[i].cycle][calls[i].updater].data

\* Two updaters with different data share one Request, which is done.
C6_Witness ==
    \E r \in 1..Len(requests) :
        /\ requests[r].pc = "done"
        /\ Len(requests[r].updaters) >= 2
        /\ requests[r].data[requests[r].updaters[1]]
                # requests[r].data[requests[r].updaters[2]]

\* ---------------------------------------------------------------- C7
\* C7, as claimed: the rejection of a cancelled fetch() is discarded; it is
\* not delivered as 'failed' (a 'failed' update always carries a Response
\* that is not ok), it does not make loadContent throw (loadContent throws
\* only for what an updater returned), and it is not left unhandled.
C7_CancellationDiscarded ==
    /\ \A i \in 1..Len(calls) :
        calls[i].arg.status = "failed" => ~calls[i].arg.response.ok
    /\ \A c \in DOMAIN thrown :
        thrown[c] => (/\ returned[c] # <<>>
                      /\ ~IsNullURL(returned[c][Len(returned[c])].url)
                      /\ ~ProperURL(returned[c][Len(returned[c])].url))
    /\ \A u \in unhandledRejections : u.reason # "abort"

\* ---------------------------------------------------------------- C8
\* C8, as claimed: when the fetch or the body read of a Request fails for a
\* reason other than cancellation, each of its updaters is called once with
\* 'failed' and no rejection is left unhandled.
C8_FailureReported ==
    \A r \in 1..Len(requests) :
        (requests[r].pc = "rejected"
            /\ requests[r].error \in {"network", "text"}) =>
            /\ \A i \in 1..Len(requests[r].updaters) :
                    StatusesOf(requests[r].signal, requests[r].url,
                               requests[r].updaters[i])
                        = <<"loading", "failed">>
            /\ \A u \in unhandledRejections :
                    ~(u.signal = requests[r].signal /\ u.url = requests[r].url)

\* ---------------------------------------------------------------- C9
\* An updater returned the empty string in the cycle.
EmptyURLReturned(cycle) ==
    \E slot \in 1..Len(returned[cycle]) :
        returned[cycle][slot].url = JSString("")

\* C9, as claimed: when the Request for one url cannot be constructed, the
\* Requests for the other urls of the cycle are still executed and their
\* updaters are called.
C9_OtherGroupsExecuted ==
    (Current # 0 /\ EmptyURLReturned(Current)) =>
        \A slot \in 1..Len(returned[Current]) :
            ProperURL(returned[Current][slot].url) =>
                /\ CountEvents("fetch", returned[Current][slot].url.val) = 1
                /\ StatusesOf(Current, returned[Current][slot].url.val, slot)
                        # <<>>

\* C9, amended: when the Request for one url cannot be constructed because
\* an updater returned the empty string, loadContent throws to its caller
\* and the whole cycle ends there: no Request of the cycle is executed, also
\* not those constructed before for other urls, and no updater gets a status
\* update of the cycle.
C9_ConstructionFailureEndsCycle ==
    (Current # 0 /\ EmptyURLReturned(Current)) =>
        (thrown[Current] /\ NothingExecuted)

\* The empty string came after a url for which a Request was constructed.
C9_Witness ==
    /\ Current # 0
    /\ EmptyURLReturned(Current)
    /\ \E r \in 1..Len(requests) :
        requests[r].signal = Current /\ requests[r].updaters # <<>>

\* --------------------------------------------------------------- C10
\* An updater returned a url that is neither null nor a string.
NonStringURLReturned(cycle) ==
    \E slot \in 1..Len(returned[cycle]) :
        returned[cycle][slot].url.type \notin {"null", "string"}

\* C10: when an updater returns a url that is neither null nor a string,
\* loadContent throws to its caller and no Request of the cycle is executed:
\* no fetch is issued and no updater gets a status update of the cycle.
C10_NonStringURLThrows ==
    (Current # 0 /\ NonStringURLReturned(Current)) =>
        (thrown[Current] /\ NothingExecuted)

\* The number came after a url for which a Request was constructed.
C10_Witness ==
    /\ Current # 0
    /\ NonStringURLReturned(Current)
    /\ \E r \in 1..Len(requests) :
        /\ requests[r].signal = Current
        /\ requests[r].pc = "constructed"
        /\ requests[r].updaters # <<>>

\* --------------------------------------------------------------- C11
\* The updateResponseStatus calls that the updater at slot got in a cycle.
CallsTo(cycle, slot) ==
    SelectSeq(calls, LAMBDA c : c.cycle = cycle /\ c.updater = slot)

\* The Request for url of a cycle has delivered its terminal update.
IsDone(cycle, url) ==
    \E r \in 1..Len(requests) :
        /\ requests[r].signal = cycle
        /\ requests[r].url = url
        /\ requests[r].pc = "done"

\* C11: an updater that returned a url in a cycle gets updates of that cycle
\* from the Request for that url only, and when that Request has settled it
\* has received exactly two updates in that cycle:
\* 'loading' with its own url, then the terminal update with the status and
\* the content of the response for its own url ('loaded' and X for /a,
\* 'failed' and Y for /b), in whatever order the Requests of the cycle
\* settle.
C11_OwnResponse ==
    \A cycle \in DOMAIN returned :
        \A slot \in 1..Len(returned[cycle]) :
            LET url == returned[cycle][slot].url
                got == CallsTo(cycle, slot)
            IN (ProperURL(url) /\ ~thrown[cycle]) =>
                /\ \A i \in 1..Len(got) : got[i].from = url.val
                /\ IsDone(cycle, url.val) =>
                    /\ Len(got) = 2
                    /\ got[1].arg.status = "loading"
                    /\ got[1].arg.url = url.val
                    /\ got[2].arg.status =
                            (IF url.val = "/a" THEN "loaded" ELSE "failed")
                    /\ got[2].arg.content =
                            (IF url.val = "/a" THEN "X" ELSE "Y")
                    /\ got[2].arg.response = ServerResponse(url.val)

\* Two Requests of one cycle for different urls have both settled, the one
\* constructed last first.
C11_Witness ==
    \E r, q \in 1..Len(requests) :
        /\ r < q
        /\ requests[r].signal = Current /\ requests[q].signal = Current
        /\ requests[r].url # requests[q].url
        /\ requests[r].pc = "done" /\ requests[q].pc = "done"
        /\ \E i, j \in 1..Len(calls) :
            /\ i < j
            /\ IsTerminal(calls[i]) /\ calls[i].from = requests[q].url
            /\ IsTerminal(calls[j]) /\ calls[j].from = requests[r].url

\* --------------------------------------------------------------- C12
\* The positions in events of the steps with op that concern url.
EventsAt(op, url) ==
    {i \in 1..Len(events) : events[i].op = op /\ events[i].url = url}

\* The calls that one Request made, in order.
CallsFrom(request) ==
    SelectSeq(calls, LAMBDA c :
        c.cycle = request.signal /\ c.from = request.url)

\* C12: in the fetch() of a Request every updater of the Request is called
\* with 'loading' before the global fetch is called and before any updater
\* is called with 'loaded' or 'failed'; the 'loading' round and the terminal
\* round both go through the updaters in the order in which they were added
\* to the Request.
C12_LoadingFirstInOrder ==
    /\ \A r \in 1..Len(requests) :
        LET request == requests[r]
            n == Len(request.updaters)
            own == CallsFrom(request)
        IN /\ Len(own) = (CASE request.pc = "constructed" -> 0
                            [] request.pc = "done" -> 2 * n
                            [] OTHER -> n)
           /\ \A i \in 1..Len(own) :
                /\ own[i].updater = request.updaters[((i - 1) % n) + 1]
                /\ (i <= n) <=> (own[i].arg.status = "loading")
                /\ (i > n) <=> IsTerminal(own[i])
    /\ \A r \in 1..Len(requests) :
        (requests[r].signal = Current /\ requests[r].pc # "constructed") =>
            LET request == requests[r]
                told == EventsAt("updateResponseStatus", request.url)
                started == EventsAt("fetch", request.url)
            IN /\ Cardinality(started) = 1
               /\ Cardinality(told) = Len(request.updaters)
               /\ \A i \in told : \A j \in started : i < j
               /\ \A i \in told :
                    /\ events[i].status = "loading"
                    /\ events[i].slot = request.updaters[
                            Cardinality({k \in told : k <= i})]

\* A Request with two updaters has delivered both rounds.
C12_Witness ==
    \E r \in 1..Len(requests) :
        /\ requests[r].signal = Current
        /\ requests[r].pc = "done"
        /\ Len(requests[r].updaters) >= 2
        /\ Len(CallsFrom(requests[r])) = 2 * Len(requests[r].updaters)

\* --------------------------------------------------------------- C13
\* All Requests of the current cycle are dispatched and none has settled:
\* each is suspended at its `await fetch`, its global fetch was called, every
\* updater that returned a url has got 'loading' and nothing else.
Dispatched ==
    /\ \A slot \in 1..Len(returned[Current]) :
        ~IsNullURL(returned[Current][slot].url) =>
            /\ Len(CallsTo(Current, slot)) = 1
            /\ CallsTo(Current, slot)[1].arg.status = "loading"
            /\ CallsTo(Current, slot)[1].from = returned[Current][slot].url.val
            /\ \E r \in 1..Len(requests) :
                /\ requests[r].signal = Current
                /\ requests[r].url = returned[Current][slot].url.val
    /\ \A r \in 1..Len(requests) :
        requests[r].signal = Current =>
            /\ requests[r].pc = "fetching"
            /\ requests[r].response = Undefined
            /\ Cardinality(EventsAt("fetch", requests[r].url)) = 1
    /\ \A i \in 1..Len(calls) :
        calls[i].cycle = Current => ~IsTerminal(calls[i])

\* C13: a loadContent call that returns leaves all Requests of its cycle
\* dispatched and none of them settled: it does not wait for any response,
\* every updater that returned a url has got 'loading', every fetch has been
\* started and no 'loaded' or 'failed' of the cycle has been delivered.
C13_ReturnsAfterDispatch ==
    [][(controllers' # controllers /\ ~thrown'[latestAbortController'])
            => Dispatched']_vars

\* loadContent has just returned with two Requests in flight.
C13_Witness ==
    /\ Current # 0
    /\ ~thrown[Current]
    /\ Dispatched
    /\ \E r, q \in 1..Len(requests) :
        /\ r # q
        /\ requests[r].signal = Current
        /\ requests[q].signal = Current

\* --------------------------------------------------------------- C14
\* The steps of the latest loadContent call in which an updater was asked.
Queries == SelectSeq(events, LAMBDA e : e.op = "getRequestConfig")

\* C14: a loadContent call that does not throw asks every registered
\* updater for its request config exactly once, in the order of registration,
\* and all of that before it starts the first fetch.
C14_EveryUpdaterAskedOnce ==
    (Current # 0 /\ ~thrown[Current]) =>
        /\ Len(Queries) = Len(updaters)
        /\ \A i \in 1..Len(Queries) : Queries[i].slot = i
        /\ Len(returned[Current]) = Len(updaters)
        /\ \A i, j \in 1..Len(events) :
            (events[i].op = "getRequestConfig"
                /\ events[j].op \in {"updateResponseStatus", "fetch"}) => i < j

\* Two updaters were asked in a call that returned and built a Request.
C14_Witness ==
    /\ Current # 0
    /\ ~thrown[Current]
    /\ Len(updaters) >= 2
    /\ Len(Queries) >= 2
    /\ \E r \in 1..Len(requests) : requests[r].signal = Current

IsOkStatus(status) == status >= 200 /\ status <= 299

\* The Requests that exist for a url of a cycle.
RequestsFor(cycle, url) ==
    {r \in 1..Len(requests) :
        requests[r].signal = cycle /\ requests[r].url = url}

\* C16: a terminal update says 'loaded' exactly when the response is ok
\* (a 2xx status) and 'failed' otherwise; either way it carries the Response
\* received for the url of the Request and the text of its body as content.
\* A response that is not ok is not retried: the url was fetched once by the
\* one Request that exists for it in the cycle, which is done.
C16_StatusFollowsOk ==
    \A i \in 1..Len(calls) :
        IsTerminal(calls[i]) =>
            LET arg == calls[i].arg
            IN /\ (arg.status = "loaded") <=> arg.response.ok
               /\ (arg.status = "failed") <=> ~arg.response.ok
               /\ arg.response.ok <=> IsOkStatus(arg.response.status)
               /\ arg.response = ServerResponse(calls[i].from)
               /\ arg.content = arg.response.body
               /\ Cardinality(RequestsFor(calls[i].cycle, calls[i].from)) = 1
               /\ \A r \in RequestsFor(calls[i].cycle, calls[i].from) :
                    requests[r].pc = "done"
               /\ calls[i].cycle = Current =>
                    CountEvents("fetch", calls[i].from) = 1

\* One Request has delivered 'failed' and another one 'loaded'.
C16_Witness ==
    \E i, j \in 1..Len(calls) :
        /\ calls[i].arg.status = "failed"
        /\ calls[i].arg.content = "Y"
        /\ calls[j].arg.status = "loaded"
        /\ calls[j].arg.content = "X"

\* --------------------------------------------------------------- C17
\* The properties of an updater object that addUpdater requires and that do
\* not hold a function.
OffendingProperties(updater) ==
    {name \in {"updateResponseStatus", "getRequestConfig"} :
        updater[name] # "function"}

\* C17: addUpdater with an object whose updateResponseStatus or
\* getRequestConfig is not a function throws an Error that names a property
\* that is not a function, and the registry is left as it was; with both
\* being functions it does not throw.  So every object in the registry has
\* the two functions, and only objects of the registry are asked for a
\* request config or called with a status update.
C17_InvalidUpdaterRejected ==
    /\ [](/\ lastCall.op = "addUpdater" =>
                IF OffendingProperties(lastCall.arg) = {}
                THEN lastCall.error = Undefined
                ELSE lastCall.error \in OffendingProperties(lastCall.arg)
          /\ \A slot \in 1..Len(updaters) :
                OffendingProperties(updaters[slot]) = {}
          /\ \A i \in 1..Len(Queries) : Queries[i].slot \in 1..Len(updaters)
          /\ \A i \in 1..Len(calls) : calls[i].updater \in 1..Len(updaters))
    /\ [][(lastCall'.op = "addUpdater" /\ lastCall'.error # Undefined)
                => updaters' = updaters]_vars

\* An object without getRequestConfig was turned down after another one had
\* been registered.
C17_Witness ==
    /\ lastCall.op = "addUpdater"
    /\ lastCall.arg.getRequestConfig # "function"
    /\ lastCall.arg.updateResponseStatus = "function"
    /\ lastCall.error = "getRequestConfig"
    /\ Len(updaters) >= 1

\* --------------------------------------------------------------- C18
\* C18: loadContent throws an Error about its parameter when
\* requestConfiguration is not an object, about searchParams when that
\* property is there and not a URLSearchParams, about reset when that
\* property is there and not a boolean; when both properties are absent or of
\* the right type the validation does not throw.
C18_ConfigurationValidated ==
    lastCall.op = "loadContent" =>
        LET config == lastCall.arg
        IN IF config.type # "object"
           THEN lastCall.error = "requestConfiguration"
           ELSE /\ config.searchParams \notin {"absent", "URLSearchParams"}
                    => lastCall.error = "searchParams"
                /\ config.reset \notin {"absent", "boolean"}
                    => lastCall.error \in {"searchParams", "reset"}
                /\ (/\ config.searchParams \in {"absent", "URLSearchParams"}
                    /\ config.reset \in {"absent", "boolean"})
                    => lastCall.error \in {Undefined, "url"}
                /\ (config.searchParams = "absent" /\ config.reset = "absent")
                    => lastCall.error \in {Undefined, "url"}

\* A reset that is not a boolean was turned down while a Request of an
\* earlier call was in flight.
C18_Witness ==
    /\ lastCall.op = "loadContent"
    /\ lastCall.arg.type = "object"
    /\ lastCall.arg.searchParams = "absent"
    /\ lastCall.arg.reset = "string"
    /\ lastCall.error = "reset"
    /\ \E r \in 1..Len(requests) : requests[r].pc = "fetching"

\* --------------------------------------------------------------- C19
\* An object whose searchParams and reset are absent or of the right type.
KnownPropertiesValid(config) ==
    /\ config.type = "object"
    /\ config.searchParams \in {"absent", "URLSearchParams"}
    /\ config.reset \in {"absent", "boolean"}

\* C19: a requestConfiguration with a property that loadContent does not
\* know, and valid otherwise, makes loadContent warn and not throw; every
\* updater is asked with the requestConfiguration that loadContent was
\* called with, the unknown property included.
C19_UnknownKeysPassedOn ==
    (/\ lastCall.op = "loadContent"
     /\ KnownPropertiesValid(lastCall.arg)) =>
        /\ lastCall.error = Undefined
        /\ lastCall.warned = lastCall.arg.unknownKey
        /\ Len(Queries) = Len(updaters)
        /\ \A i \in 1..Len(Queries) : Queries[i].arg = lastCall.arg

\* Two updaters were asked with a requestConfiguration that has an unknown
\* property.
C19_Witness ==
    /\ lastCall.op = "loadContent"
    /\ lastCall.arg.type = "object"
    /\ lastCall.arg.unknownKey
    /\ lastCall.error = Undefined
    /\ Len(Queries) >= 2
    /\ \A i \in 1..Len(Queries) : Queries[i].arg.unknownKey

\* --------------------------------------------------------------- C20
\* What a loadContent call leaves of the Requests that were there before:
\* each is one of the Requests before, with the updaters and the signal it
\* had, and its fetch() was not called again.
EarlierRequestsNotReused ==
    \A r \in 1..Len(requests') :
        requests'[r].signal # latestAbortController' =>
            \E q \in 1..Len(requests) :
                /\ requests'[r].url = requests[q].url
                /\ requests'[r].signal = requests[q].signal
                /\ requests'[r].updaters = requests[q].updaters
                /\ requests'[r].data = requests[q].data
                /\ requests'[r].pc \in {requests[q].pc, "rejected"}

\* C20: every loadContent call that passes the validation allocates an
\* AbortController that did not exist before, whose signal is not aborted,
\* and constructs a Request with that signal for every url returned, also
\* for a url that a Request of an earlier call was constructed for; the
\* Requests and controllers of earlier calls are not used again.
C20_FreshPerCycle ==
    /\ [](/\ Current \notin aborted
          /\ \A r \in 1..Len(requests) :
                /\ requests[r].signal \in 1..controllers
                /\ requests[r].signal = Current =>
                    Cardinality({i \in EventsAt("new Request", requests[r].url) :
                                    events[i].signal = Current}) = 1
          /\ \A r, q \in 1..Len(requests) :
                (requests[r].url = requests[q].url
                    /\ requests[r].signal = requests[q].signal) => r = q)
    /\ [][controllers' # controllers =>
            /\ latestAbortController' = controllers'
            /\ latestAbortController' \notin 1..controllers
            /\ latestAbortController' \notin aborted'
            /\ EarlierRequestsNotReused]_vars

\* The same url in two calls: the Request of the first call was aborted, the
\* Request of the second call has delivered its response.
C20_Witness ==
    /\ Current = 2
    /\ \E r, q \in 1..Len(requests) :
        /\ requests[r].signal = 1
        /\ requests[r].pc = "rejected"
        /\ requests[q].signal = 2
        /\ requests[q].pc = "done"
        /\ requests[r].url = requests[q].url

\* --------------------------------------------------------------- C22
\* The calls of updaters that a step makes.
NewCalls == SubSeq(calls', Len(calls) + 1, Len(calls'))

\* The successful registrations on the Request, in the order they were made.
Registrations == SelectSeq(events, LAMBDA e : e.op = "Request.addUpdater")

\* The step runs a round of #callAllUpdaters of request r: the 'loading'
\* round of fetch() or the terminal round after the body was read.
RoundRuns(r) ==
    /\ r \in 1..Len(requests)
    /\ requests'[r].pc # requests[r].pc
    /\ requests'[r].pc \in {"fetching", "done"}

StatusesOfRound(r) ==
    IF requests'[r].pc = "fetching" THEN {"loading"} ELSE {"loaded", "failed"}

TimesRegistered(registered, h) ==
    Cardinality({i \in DOMAIN registered : registered[i].updater = h})

TimesInvoked(round, h, statuses) ==
    Cardinality({i \in DOMAIN round :
                    round[i].updater = h /\ round[i].arg.status \in statuses})

\* C22: a handler function registered k times on one Request is invoked k
\* times in the 'loading' round of fetch() and k times in the terminal round.
C22_DuplicatesInvoked ==
    [][\A r \in 1..Len(requests) :
        RoundRuns(r) =>
            \A h \in HandlerFunctions :
                TimesInvoked(NewCalls, h, StatusesOfRound(r))
                    = TimesRegistered(Registrations, h)]_vars

\* The same function was registered twice, both rounds ran: four calls of it.
C22_Witness ==
    \E r \in 1..Len(requests), h \in HandlerFunctions :
        /\ requests[r].pc = "done"
        /\ TimesRegistered(Registrations, h) = 2
        /\ TimesInvoked(calls, h, {"loading"}) = 2
        /\ TimesInvoked(calls, h, {"loaded", "failed"}) = 2

\* --------------------------------------------------------------- C23
\* C23: in each round of status updates the i-th invocation carries the
\* data of the i-th registration, also when a function is registered twice.
C23_DataPerRegistration ==
    [][\A r \in 1..Len(requests) :
        RoundRuns(r) =>
            /\ Len(NewCalls) = Len(Registrations)
            /\ \A i \in DOMAIN NewCalls :
                /\ NewCalls[i].updater = Registrations[i].updater
                /\ NewCalls[i].arg.data = Registrations[i].data]_vars

\* --------------------------------------------------------------- C25
\* The arguments that a Request cannot be made of.
InvalidURL(url) == url.type # "string" \/ url.val = ""
\* ... 0 is a missing signal, -1 an object that is not an AbortSignal.
InvalidSignal(signal) == signal \in {0, -1}

\* C25: new Request({ url, signal }) throws when url is empty or not a
\* string or when signal is missing or not an AbortSignal, and then no
\* Request object exists; with valid arguments the object exists.
C25_ConstructorRejects ==
    lastCall.op = "new Request" =>
        /\ (InvalidURL(lastCall.arg.url) \/ InvalidSignal(lastCall.arg.signal))
                <=> lastCall.error # Undefined
        /\ lastCall.error # Undefined => requests = <<>>
        /\ lastCall.error = Undefined => Len(requests) = 1

\* A valid url came with an object that is not an AbortSignal.
C25_Witness ==
    /\ lastCall.op = "new Request"
    /\ ~InvalidURL(lastCall.arg.url)
    /\ lastCall.arg.signal = -1
    /\ lastCall.error # Undefined
    /\ requests = <<>>

\* --------------------------------------------------------------- C26
\* The latest call was addUpdater with something that is no function.
NonCallableGiven(call) ==
    call.op = "Request.addUpdater" /\ call.arg.updater.type # "function"

\* C26: Request.addUpdater with a non-callable updater throws and leaves the
\* Request as it was; every round still calls the functions registered,
\* once per registration, and nothing else.
C26_NonCallableRejected ==
    /\ [](/\ NonCallableGiven(lastCall) => lastCall.error # Undefined
          /\ \A r \in 1..Len(requests) :
                \A i \in DOMAIN requests[r].updaters :
                    requests[r].updaters[i] \in HandlerFunctions)
    /\ [][(lastCall' # lastCall /\ NonCallableGiven(lastCall'))
            => (requests' = requests /\ calls' = calls)]_vars
    /\ [][\A r \in 1..Len(requests) :
            RoundRuns(r) =>
                /\ Len(NewCalls) = Len(requests[r].updaters)
                /\ \A i \in DOMAIN NewCalls :
                    NewCalls[i].updater = requests[r].updaters[i]]_vars

\* addUpdater threw while the fetch was in flight; the function registered
\* before got 'loading' and the terminal status.
C26_Witness ==
    /\ NonCallableGiven(lastCall)
    /\ lastCall.error # Undefined
    /\ \E r \in 1..Len(requests) :
        /\ requests[r].pc = "done"
        /\ Len(requests[r].updaters) = 1
        /\ Len(calls) = 2
        /\ calls[1].arg.status = "loading"
        /\ IsTerminal(calls[2])

\* --------------------------------------------------------------- C21
\* The updater objects asked by the latest loadContent call, in order.
QueriedObjects == [i \in DOMAIN Queries |-> updaters[Queries[i].slot]]

\* The slots whose updater returned url in cycle, in the order of the slots.
RECURSIVE SlotsReturning(_, _, _)
SlotsReturning(cycle, url, upTo) ==
    IF upTo = 0 THEN <<>>
    ELSE LET before == SlotsReturning(cycle, url, upTo - 1)
         IN IF returned[cycle][upTo].url = JSString(url)
            THEN Append(before, upTo) ELSE before

\* The slots that got an update with one of statuses from request, in the
\* order of the calls.
SlotsServed(request, statuses) ==
    LET round == SelectSeq(calls, LAMBDA c : /\ c.cycle = request.signal
                                             /\ c.from = request.url
                                             /\ c.arg.status \in statuses)
    IN [i \in DOMAIN round |-> round[i].updater]

\* C21: the registry only grows, by one entry at its end with every
\* successful addUpdater call, whether or not the object is in it already;
\* every loadContent call asks all entries in their order; and each round of
\* a Request serves every entry that returned its url, so an object
\* registered k times is asked k times and gets each update k times.
C21_RegistryOnlyGrows ==
    /\ [][/\ Len(updaters') >= Len(updaters)
          /\ SubSeq(updaters', 1, Len(updaters)) = updaters
          /\ (lastCall'.op = "addUpdater" /\ lastCall'.error = Undefined
                /\ controllers' = controllers /\ requests' = requests)
                => updaters' = Append(updaters, lastCall'.arg)
          /\ (controllers' # controllers /\ ~thrown'[controllers'])
                => QueriedObjects' = updaters]_vars
    /\ [](\A r \in 1..Len(requests) :
            LET slots == SlotsReturning(requests[r].signal, requests[r].url,
                                        Len(returned[requests[r].signal]))
            IN /\ requests[r].pc # "constructed"
                    => SlotsServed(requests[r], {"loading"}) = slots
               /\ requests[r].pc = "done"
                    => SlotsServed(requests[r], {"loaded", "failed"}) = slots
               /\ requests[r].pc \notin {"constructed", "done"}
                    => SlotsServed(requests[r], {"loaded", "failed"}) = <<>>)

\* One object sits in two slots; it was asked twice in the second cycle and
\* got 'loading' twice and the terminal status twice.
C21_Witness ==
    /\ Current = 2
    /\ Len(updaters) >= 2
    /\ updaters[1] = updaters[2]
    /\ Len(QueriedObjects) >= 2
    /\ \E r \in 1..Len(requests) :
        /\ requests[r].signal = Current
        /\ requests[r].pc = "done"
        /\ {1, 2} \subseteq
                {s \in 1..Len(updaters) :
                    \E i \in DOMAIN SlotsServed(requests[r], {"loading"}) :
                        SlotsServed(requests[r], {"loading"})[i] = s}
        /\ Len(SlotsServed(requests[r], {"loaded", "failed"})) >= 2

\* --------------------------------------------------------------- C29
\* The urls returned in cycle by the first upTo updaters, each once, in the
\* order in which they were returned first.
RECURSIVE FirstReturned(_, _)
FirstReturned(cycle, upTo) ==
    IF upTo = 0 THEN <<>>
    ELSE LET before == FirstReturned(cycle, upTo - 1)
             url == returned[cycle][upTo].url
         IN IF \/ url.type # "string"
               \/ \E i \in DOMAIN before : before[i] = url.val
            THEN before ELSE Append(before, url.val)

\* What one Request does when it is executed: 'loading' to the updaters
\* that returned its url, in their order, then the global fetch.
ExecutionOf(cycle, url) ==
    LET slots == SlotsReturning(cycle, url, Len(returned[cycle]))
    IN [i \in DOMAIN slots |->
            [op |-> "updateResponseStatus", url |-> url, slot |-> slots[i],
             status |-> "loading"]]
       \o <<[op |-> "fetch", url |-> url]>>

RECURSIVE ExecutionsOf(_, _)
ExecutionsOf(cycle, urls) ==
    IF urls = <<>> THEN <<>>
    ELSE ExecutionOf(cycle, Head(urls)) \o ExecutionsOf(cycle, Tail(urls))

\* The deliveries and fetches of the latest loadContent call, in order.
Executions ==
    SelectSeq(events, LAMBDA e : e.op \in {"updateResponseStatus", "fetch"})

\* The slots that got 'loading' in the current cycle, in order.
LoadingOrder ==
    LET round == SelectSeq(calls, LAMBDA c : /\ c.cycle = Current
                                             /\ c.arg.status = "loading")
    IN [i \in DOMAIN round |-> round[i].updater]

\* C29: a loadContent call that returns executes the Requests in the order
\* in which their urls were first returned by the updaters, and delivers
\* 'loading' to all updaters of one Request before it turns to the next.
C29_OrderOfFirstReturn ==
    (Current # 0 /\ ~thrown[Current]) =>
        LET urls == FirstReturned(Current, Len(returned[Current]))
            expected == ExecutionsOf(Current, urls)
            delivered == SelectSeq(expected,
                            LAMBDA e : e.op = "updateResponseStatus")
        IN /\ Executions = expected
           /\ LoadingOrder = [i \in DOMAIN delivered |-> delivered[i].slot]

\* Four updaters returned /a, null, /b, /a: 'loading' went to the first, the
\* fourth and the third, in this order.
C29_Witness ==
    /\ Current # 0
    /\ ~thrown[Current]
    /\ Len(returned[Current]) = 4
    /\ [i \in 1..4 |-> returned[Current][i].url]
            = <<JSString("/a"), JSNull, JSString("/b"), JSString("/a")>>
    /\ LoadingOrder = <<1, 4, 3>>

\* --------------------------------------------------------------- C24
\* The statuses that the updater at slot got, over all cycles, in order.
AllStatusesOf(slot) ==
    LET got == SelectSeq(calls, LAMBDA c : c.updater = slot)
    IN [i \in DOMAIN got |-> got[i].arg.status]

\* C24: every event dispatched on the element has led to exactly one call
\* of the pool with its detail once its listeners have run; and with one
\* updater registered and one load answered with 200, the updater got
\* 'loading' and then 'loaded'.
C24_OneCallPerEvent ==
    /\ (dispatched.type # "none" /\ NoListenerLeft) => dispatched.made = 1
    /\ (/\ dispatched.loads = 1
        /\ NoListenerLeft
        /\ Len(updaters) = 1
        /\ \E r \in 1..Len(requests) : requests[r].pc = "done")
            => AllStatusesOf(1) = <<"loading", "loaded">>

\* --------------------------------------------------------------- C27
\* A child is in sight unless its style says display: none.
Visible(key) == contentUpdater.dom.display[key] # "none"

\* The latest status update was handled to its end.
Handled == contentUpdater.handled.status # Undefined /\ contentUpdater.error = Undefined

C28_EveryEntryInQuery ==
    contentUpdater.configError = Undefined =>
        \A i \in DOMAIN contentUpdater.asked.searchParams :
            \E j \in DOMAIN contentUpdater.clonedURL.query :
                contentUpdater.clonedURL.query[j]
                    = contentUpdater.asked.searchParams[i]

\* --------------------------------------------------------------- C30
\* The text that a 'failed' update puts into [data-error].
ErrorText(update) ==
    <<"ERROR: Status ", ToString(update.response.status), " - ", update.content>>

\* The children other than key have the content they had before.
OthersUntouched(key) ==
    \A other \in Children \ {key} :
        contentUpdater.dom.innerHTML[other] = contentUpdater.before.innerHTML[other]

\* C30: a 'loaded' update appends its content to [data-content] when its own
\* data.action is 'paginateAppend' and the element is the main content, and
\* replaces the content otherwise; 'failed' replaces the content of
\* [data-error]; 'loading' changes no content.  Only the data of the update
\* counts, whatever #getRequestConfig was asked last.
C30_AppendOnlyWhenPaginating ==
    LET update == contentUpdater.handled
        now == contentUpdater.dom.innerHTML
        before == contentUpdater.before.innerHTML
        appends == /\ update.data.type = "object"
                   /\ update.data.action = "paginateAppend"
                   /\ contentUpdater.handledAsMain
    IN Handled =>
        /\ (update.status = "loaded" /\ appends) =>
                /\ now.loaded = before.loaded \o <<update.content>>
                /\ OthersUntouched("loaded")
        /\ (update.status = "loaded" /\ ~appends) =>
                /\ now.loaded = <<update.content>>
                /\ OthersUntouched("loaded")
        /\ update.status = "failed" =>
                /\ now.failed = ErrorText(update)
                /\ OthersUntouched("failed")
        /\ update.status = "loading" => now = before

\* A page was appended although the element was asked for a request config
\* with another action since.
C30_Witness ==
    /\ Handled
    /\ contentUpdater.handled.status = "loaded"
    /\ contentUpdater.handled.data.action = "paginateAppend"
    /\ contentUpdater.handledAsMain
    /\ contentUpdater.configError = Undefined
    /\ contentUpdater.requestConfig.data.action = "paginateReplace"
    /\ Len(contentUpdater.dom.innerHTML.loaded)
            = Len(contentUpdater.before.innerHTML.loaded) + 1
    /\ Len(contentUpdater.before.innerHTML.loaded) >= 1

\* --------------------------------------------------------------- C33
\* The call was loadContent and its requestConfiguration was rejected.
ConfigurationRejected(call) ==
    /\ call.op = "loadContent"
    /\ call.error \in {"requestConfiguration", "searchParams", "reset"}

\* C33: a loadContent call that rejects its requestConfiguration changes
\* nothing: no signal is aborted, no controller allocated, no updater asked,
\* and the Requests in flight stay in flight; while that call is the latest,
\* the signal of the current cycle is not aborted.
C33_RejectedBeforeAnyEffect ==
    /\ [][(lastCall' # lastCall /\ ConfigurationRejected(lastCall')) =>
            /\ aborted' = aborted
            /\ latestAbortController' = latestAbortController
            /\ controllers' = controllers
            /\ requests' = requests
            /\ calls' = calls
            /\ events' = events
            /\ returned' = returned
            /\ unhandledRejections' = unhandledRejections]_vars
    /\ [](ConfigurationRejected(lastCall) => Current \notin aborted)

\* A cycle was in flight when a configuration was rejected; its Request went
\* on to deliver the terminal status.
C33_Witness ==
    /\ ConfigurationRejected(lastCall)
    /\ Current = 1
    /\ \E r \in 1..Len(requests) :
        /\ requests[r].signal = Current
        /\ requests[r].pc = "done"
        /\ \E i \in 1..Len(calls) :
            calls[i].cycle = Current /\ IsTerminal(calls[i])

\* --------------------------------------------------------------- C35
\* The controllers allocated so far whose signal is not aborted.
NotAborted == (1..controllers) \ aborted

\* C35: of the controllers that the pool allocated, only the one of the
\* latest loadContent call is not aborted; every Request built by that call
\* got its signal, and every Request holds the signal of the one call that
\* built it.
C35_OneLiveSignal ==
    /\ latestAbortController = controllers
    /\ NotAborted = IF controllers = 0 THEN {} ELSE {Current}
    /\ \A i \in 1..Len(events) :
        events[i].op = "new Request" => events[i].signal = Current
    /\ \A r \in 1..Len(requests) :
        /\ requests[r].signal \in 1..controllers
        /\ requests[r].signal # Current => requests[r].signal \in aborted

\* The second cycle built two Requests while a Request of the first was
\* still there.
C35_Witness ==
    /\ Current = 2
    /\ aborted = {1}
    /\ \E r \in 1..Len(requests) : requests[r].signal = 1
    /\ Cardinality({i \in 1..Len(events) : events[i].op = "new Request"}) >= 1
    /\ \E r \in 1..Len(requests) : requests[r].signal = 2

\* --------------------------------------------------------------- C34
\* The signal of the call before the latest is aborted and the latest call
\* has allocated a controller of its own.
PreviousCancelled ==
    /\ latestAbortController = controllers
    /\ \A cycle \in 1..(Current - 1) : cycle \in aborted
    /\ Current \notin aborted

\* No update of the current cycle was delivered.
NoStatusOfCurrent == \A i \in 1..Len(calls) : calls[i].cycle # Current

\* No terminal update of an earlier cycle was delivered since the current
\* cycle began.
NoTerminalOfPrevious ==
    \A i \in 1..Len(calls) :
        (calls[i].latest = Current /\ IsTerminal(calls[i]))
            => calls[i].cycle = Current

\* C34: when the latest loadContent call threw while it asked the updaters,
\* the cycle before is cancelled and a new signal is in place, the updaters
\* of the cycle before get no terminal status any more, and no updater got a
\* status of the cycle that failed.
C34_FailedCycleSupersedes ==
    (Current # 0 /\ thrown[Current]) =>
        /\ PreviousCancelled
        /\ NoStatusOfCurrent
        /\ NoTerminalOfPrevious

\* --------------------------------------------------------------- C38
\* C38: an addUpdater call leaves the Requests and what they delivered as
\* they are; a Request serves, in both of its rounds, the updaters that
\* returned its url when its cycle began, so an updater gets updates only of
\* cycles that began after its registration.
C38_LateUpdaterWaits ==
    /\ [][Len(updaters') > Len(updaters)
            => (requests' = requests /\ calls' = calls)]_vars
    /\ [](/\ \A i \in 1..Len(calls) :
                calls[i].updater \in 1..Len(returned[calls[i].cycle])
          /\ \A r \in 1..Len(requests) :
                LET slots == SlotsReturning(requests[r].signal, requests[r].url,
                                            Len(returned[requests[r].signal]))
                IN /\ requests[r].updaters = slots
                   /\ requests[r].pc = "done"
                        => SlotsServed(requests[r], {"loaded", "failed"}) = slots)

\* The second updater was registered while the Request of the first was in
\* flight: the Request is done and only the first updater was served.
C38_Witness ==
    /\ Current = 1
    /\ Len(updaters) = 2
    /\ Len(returned[Current]) = 1
    /\ \E r \in 1..Len(requests) :
        /\ requests[r].pc = "done"
        /\ SlotsServed(requests[r], {"loading"}) = <<1>>
        /\ SlotsServed(requests[r], {"loaded", "failed"}) = <<1>>
    /\ \A i \in 1..Len(calls) : calls[i].updater # 2

\* --------------------------------------------------------------- C31
\* The latest call was a loadContent whose requestConfiguration passed.
CycleBegan ==
    /\ lastCall.op = "loadContent"
    /\ ~ConfigurationRejected(lastCall)
    /\ Current # 0

\* The slots of the inputs-updaters.
InputsSlots ==
    {slot \in 1..Len(updaters) : updaters[slot].id = "inputs-updater"}

\* The updater at slot returned a url in the current cycle and got a
\* status update of it.
TakesPart(slot) ==
    /\ slot \in 1..Len(returned[Current])
    /\ returned[Current][slot].url.type = "string"
    /\ \E i \in 1..Len(calls) :
        calls[i].cycle = Current /\ calls[i].updater = slot

\* ... opted out with null and got none.
OptsOut(slot) ==
    /\ slot \in 1..Len(returned[Current])
    /\ returned[Current][slot].url = JSNull
    /\ \A i \in 1..Len(calls) :
        ~(calls[i].cycle = Current /\ calls[i].updater = slot)

GotUpdate(request, slot, statuses) ==
    \E i \in 1..Len(calls) :
        /\ calls[i].cycle = request.signal
        /\ calls[i].from = request.url
        /\ calls[i].updater = slot
        /\ calls[i].arg.status \in statuses

HandlersOf(request) ==
    {request.updaters[i] : i \in 1..Len(request.updaters)}

\* The fetch() of the request has come to its end or was ended by the
\* exception of a handler.
EndedWithHandlers(request) ==
    \/ request.pc = "done"
    \/ request.pc = "rejected" /\ request.error = "handler"

\* The handler at slot has thrown on an update of the request.
Threw(request, slot) ==
    \E i \in 1..Len(calls) :
        /\ calls[i].cycle = request.signal
        /\ calls[i].from = request.url
        /\ calls[i].updater = slot
        /\ HandlerThrows(slot, calls[i].arg)

\* Every handler of a request whose fetch() was called, but one that threw,
\* got 'loading', and got the terminal status once nothing of the fetch() is
\* left to run.
ServedInFull(request) ==
    \A slot \in HandlersOf(request) :
        ~Threw(request, slot) =>
            /\ GotUpdate(request, slot, {"loading"})
            /\ EndedWithHandlers(request) =>
                    GotUpdate(request, slot, {"loaded", "failed"})

\* No handler of the request throws on anything.
NoHandlerThrows(request) ==
    \A slot \in HandlersOf(request) : updaters[slot].throwsOn = "never"

\* The throwing handler is on another request only: holds.
OtherTransportsServed ==
    \A r \in 1..Len(requests) :
        NoHandlerThrows(requests[r]) => ServedInFull(requests[r])

\* loadContent returns without an exception: holds.
CallerNotReached ==
    lastCall.op = "loadContent" => lastCall.error = Undefined

\* C37, as claimed: a statusHandler that throws keeps no other handler of
\* the cycle, on the same request or on another, from the status update and
\* from its terminal status, and loadContent does not throw.
C37_ThrowingHandlerIsolated ==
    /\ \A r \in 1..Len(requests) : ServedInFull(requests[r])
    /\ CallerNotReached

\* --------------------------------------------------------------- C36
\* C36, as claimed: when a statusHandler calls loadContent from inside its
\* 'loading' callback, no status update of the outer cycle is delivered once
\* the inner cycle has started: every status update is of the cycle whose
\* controller is the latest at the time of the call.
C36_OuterCycleSilenced ==
    \A i \in 1..Len(calls) : calls[i].cycle = calls[i].latest

\* --------------------------------------------------------------- C32
\* The #fetchData calls that have not come to their end.
InFlight ==
    {n \in 1..Len(asyncLoader.fetches) : asyncLoader.fetches[n].pc # "settled"}

\* A trigger event is handled in this step.
TriggerHandled == asyncLoader'.triggers = asyncLoader.triggers + 1

FetchStarted == Len(asyncLoader'.fetches) = Len(asyncLoader.fetches) + 1

\* C32: with data-load-once, a trigger event handled while the loading
\* status is 'loading' or 'loaded' starts no fetch, so that at most one fetch
\* is in flight and none starts after a success; a trigger event that comes
\* with a url and is handled while the status is 'failed' starts one.
C32_LoadOnceGate ==
    /\ [](asyncLoader.loadOnce =>
            /\ Cardinality(InFlight) <= 1
            /\ (\E n \in 1..Len(asyncLoader.fetches) :
                    asyncLoader.fetches[n].outcome = "loaded")
                => asyncLoader.loadingStatus = "loaded")
    /\ [][(asyncLoader.loadOnce /\ TriggerHandled) =>
            /\ asyncLoader.loadingStatus \in {"loading", "loaded"}
                    => asyncLoader'.fetches = asyncLoader.fetches
            /\ (/\ asyncLoader.loadingStatus = "failed"
                /\ asyncLoader'.lastTrigger # "threw") => FetchStarted]_vars
    /\ [][FetchStarted => asyncLoader'.lastTrigger = "fetched"]_vars

\* With data-load-once: a fetch failed, the next trigger event started a
\* second one, and a third event, handled while that was loading, none.
C32_Witness ==
    /\ asyncLoader.loadOnce
    /\ Len(asyncLoader.fetches) = 2
    /\ asyncLoader.fetches[1].outcome = "failed"
    /\ asyncLoader.lastTrigger = "returned"
    /\ asyncLoader.loadingStatus = "loading"

\* --------------------------------------------------------------- C39
\* C39, as claimed: without data-load-once, once every fetch has settled
\* the content shown and the loading status are those of the fetch that was
\* triggered last, in whatever order the fetches settled.
C39_LatestFetchShown ==
    (/\ ~asyncLoader.loadOnce
     /\ asyncLoader.fetches # <<>>
     /\ InFlight = {}) =>
        /\ asyncLoader.shown.by = Len(asyncLoader.fetches)
        /\ asyncLoader.loadingStatus
                = asyncLoader.fetches[Len(asyncLoader.fetches)].outcome

====
